---- MODULE Spec2Model ----
(***************************************************************************)
(* A model of the MCP MongoDB novel server: the natural-language query     *)
(* parser (utils/query_parser.rs), the document-store service              *)
(* (services/db_service.rs), the tool server (mcp/server.rs) and the two   *)
(* dispatchers: the HTTP JSON-RPC handler (handlers/rmcp_handler.rs) and   *)
(* the tool dispatcher MpcHandler::call_tool (handlers/mcp_handler.rs).    *)
(*                                                                         *)
(* Strings are sequences of one-character strings, so that substring,      *)
(* split, trim and case conversions are computed and not assumed.          *)
(***************************************************************************)
EXTENDS Integers, Sequences, FiniteSets, TLC

VARIABLES
    writeAccess,  \* cfg(feature = "mcp_write_access") of the build
    chapters,     \* the "chapters" collection of the document store
    pc,           \* position of the request in flight: idle, received, responded
    req,          \* the request in flight
    resp,         \* the reply produced for it
    storeOps,     \* the store operations the handling of req issued (collection of each)
    storeDown,    \* the collections whose access fails while req is handled
    pre,          \* the chapters collection as it was when req was handled
    tasks         \* the DatabaseService calls that run concurrently, each with its position

vars == <<writeAccess, chapters, pc, req, resp, storeOps, storeDown, pre, tasks>>

----------------------------------------------------------------------------
(* Option<T> and Result<T, E> *)

None == [some |-> FALSE]
Some(v) == [some |-> TRUE, val |-> v]

Ok(v) == [ok |-> TRUE, val |-> v]
Err(e) == [ok |-> FALSE, err |-> e]

----------------------------------------------------------------------------
(* Characters and strings *)

LowerAlpha ==
    <<"a","b","c","d","e","f","g","h","i","j","k","l","m","n","o","p","q","r","s","t","u","v","w","x","y","z">>
UpperAlpha ==
    <<"A","B","C","D","E","F","G","H","I","J","K","L","M","N","O","P","Q","R","S","T","U","V","W","X","Y","Z">>
Digits ==
    <<"0","1","2","3","4","5","6","7","8","9">>

Range(s) == {s[i] : i \in DOMAIN s}

LowerSet == Range(LowerAlpha)
UpperSet == Range(UpperAlpha)
DigitSet == Range(Digits)
AlphaSet == LowerSet \cup UpperSet
AlnumSet == AlphaSet \cup DigitSet
SpaceSet == {" "}
HexSet == DigitSet \cup {"a","b","c","d","e","f","A","B","C","D","E","F"}

ToLowerChar(c) ==
    IF c \in UpperSet
    THEN LowerAlpha[CHOOSE i \in DOMAIN UpperAlpha : UpperAlpha[i] = c]
    ELSE c

to_lowercase(t) == [i \in 1..Len(t) |-> ToLowerChar(t[i])]

DigitValue(c) == (CHOOSE i \in DOMAIN Digits : Digits[i] = c) - 1

\* text[pos..] starts with lit (pos is 1-based)
StartsAt(text, pos, lit) ==
    /\ pos + Len(lit) - 1 <= Len(text)
    /\ \A k \in 1..Len(lit) : text[pos + k - 1] = lit[k]

contains(text, lit) ==
    \E pos \in 1..(Len(text) - Len(lit) + 1) : StartsAt(text, pos, lit)

\* number of consecutive characters of class cls from pos on
RECURSIVE RunLen(_, _, _)
RunLen(text, pos, cls) ==
    IF pos <= Len(text) /\ text[pos] \in cls
    THEN 1 + RunLen(text, pos + 1, cls)
    ELSE 0

\* number of consecutive non-whitespace characters from pos on
RECURSIVE WordLen(_, _)
WordLen(text, pos) ==
    IF pos <= Len(text) /\ text[pos] \notin SpaceSet
    THEN 1 + WordLen(text, pos + 1)
    ELSE 0

RECURSIVE split_whitespace(_)
split_whitespace(text) ==
    IF text = <<>> THEN <<>>
    ELSE IF text[1] \in SpaceSet THEN split_whitespace(Tail(text))
    ELSE LET n == WordLen(text, 1)
         IN <<SubSeq(text, 1, n)>> \o split_whitespace(SubSeq(text, n + 1, Len(text)))

RECURSIVE trim_start_non_alnum(_)
trim_start_non_alnum(w) ==
    IF w # <<>> /\ w[1] \notin AlnumSet THEN trim_start_non_alnum(Tail(w)) ELSE w

RECURSIVE trim_end_non_alnum(_)
trim_end_non_alnum(w) ==
    IF w # <<>> /\ w[Len(w)] \notin AlnumSet
    THEN trim_end_non_alnum(SubSeq(w, 1, Len(w) - 1))
    ELSE w

trim_matches_non_alnum(w) == trim_end_non_alnum(trim_start_non_alnum(w))

RECURSIVE trim_start(_)
trim_start(w) == IF w # <<>> /\ w[1] \in SpaceSet THEN trim_start(Tail(w)) ELSE w

RECURSIVE trim_end(_)
trim_end(w) ==
    IF w # <<>> /\ w[Len(w)] \in SpaceSet THEN trim_end(SubSeq(w, 1, Len(w) - 1)) ELSE w

trim(w) == trim_end(trim_start(w))

RECURSIVE join(_, _)
join(words, sep) ==
    IF words = <<>> THEN <<>>
    ELSE IF Len(words) = 1 THEN words[1]
    ELSE words[1] \o sep \o join(Tail(words), sep)

----------------------------------------------------------------------------
(* The regex crate, for the patterns of query_parser.rs: a pattern is a    *)
(* sequence of elements, matched leftmost-first with greedy repetition and *)
(* backtracking.  One capture group per pattern.                           *)

ReLit(s) == [k |-> "lit", s |-> s]                    \* literal text
ReOptAlt(alts) == [k |-> "optalt", alts |-> alts]     \* (?:a|b)?
ReRep(cls, min, cap) == [k |-> "rep", cls |-> cls, min |-> min, cap |-> cap] \* [cls]* or [cls]+
ReOpt(cls) == [k |-> "opt", cls |-> cls]              \* [cls]?

NoMatch == [ok |-> FALSE]

RECURSIVE MatchFrom(_, _, _, _)
RECURSIVE TryRep(_, _, _, _, _)
RECURSIVE TryAlts(_, _, _, _, _)

MatchFrom(text, pat, k, pos) ==
    IF k > Len(pat) THEN [ok |-> TRUE, cs |-> 1, ce |-> 0]
    ELSE LET e == pat[k] IN
         CASE e.k = "lit" ->
                IF StartsAt(text, pos, e.s)
                THEN MatchFrom(text, pat, k + 1, pos + Len(e.s))
                ELSE NoMatch
           [] e.k = "optalt" -> TryAlts(text, pat, k, pos, 1)
           [] e.k = "rep" -> TryRep(text, pat, k, pos, RunLen(text, pos, e.cls))
           [] e.k = "opt" ->
                LET taken == IF pos <= Len(text) /\ text[pos] \in e.cls
                             THEN MatchFrom(text, pat, k + 1, pos + 1)
                             ELSE NoMatch
                IN IF taken.ok THEN taken ELSE MatchFrom(text, pat, k + 1, pos)

TryRep(text, pat, k, pos, n) ==
    IF n < pat[k].min THEN NoMatch
    ELSE LET r == MatchFrom(text, pat, k + 1, pos + n)
         IN IF r.ok
            THEN (IF pat[k].cap THEN [ok |-> TRUE, cs |-> pos, ce |-> pos + n - 1] ELSE r)
            ELSE TryRep(text, pat, k, pos, n - 1)

TryAlts(text, pat, k, pos, a) ==
    IF a > Len(pat[k].alts) THEN MatchFrom(text, pat, k + 1, pos)
    ELSE LET alt == pat[k].alts[a]
             r == IF StartsAt(text, pos, alt)
                  THEN MatchFrom(text, pat, k + 1, pos + Len(alt))
                  ELSE NoMatch
         IN IF r.ok THEN r ELSE TryAlts(text, pat, k, pos, a + 1)

\* Regex::captures(text): capture group 1 of the leftmost match, or None
RECURSIVE CapturesFrom(_, _, _)
CapturesFrom(text, pat, pos) ==
    IF pos > Len(text) + 1 THEN None
    ELSE LET r == MatchFrom(text, pat, 1, pos)
         IN IF r.ok THEN Some(SubSeq(text, r.cs, r.ce))
            ELSE CapturesFrom(text, pat, pos + 1)

captures(text, pat) == CapturesFrom(text, pat, 1)

SepSet == {":", "|", "="}

----------------------------------------------------------------------------
(* utils/query_parser.rs *)

stop_words ==
    {<<"t","h","e">>,
     <<"a">>,
     <<"a","n">>,
     <<"i","n">>,
     <<"o","n">>,
     <<"a","t">>,
     <<"o","f">>,
     <<"t","o">>,
     <<"f","o","r">>,
     <<"w","i","t","h">>,
     <<"a","b","o","u","t">>,
     <<"b","y">>,
     <<"i","s">>,
     <<"a","r","e">>,
     <<"w","a","s">>,
     <<"w","e","r","e">>,
     <<"b","e">>,
     <<"b","e","e","n">>,
     <<"b","e","i","n","g">>,
     <<"h","a","v","e">>,
     <<"h","a","s">>,
     <<"h","a","d">>,
     <<"d","o">>,
     <<"d","o","e","s">>,
     <<"d","i","d">>,
     <<"c","a","n">>,
     <<"c","o","u","l","d">>,
     <<"w","i","l","l">>,
     <<"w","o","u","l","d">>,
     <<"s","h","o","u","l","d">>,
     <<"s","h","a","l","l">>,
     <<"g","e","t">>,
     <<"f","i","n","d">>,
     <<"s","h","o","w">>,
     <<"t","e","l","l">>,
     <<"g","i","v","e">>,
     <<"s","e","a","r","c","h">>,
     <<"q","u","e","r","y">>,
     <<"l","o","o","k">>}

collections ==
    <<<<<<"n","o","v","e","l">>, "novels">>,
      <<<<"c","h","a","p","t","e","r">>, "chapters">>,
      <<<<"c","h","a","r","a","c","t","e","r">>, "characters">>,
      <<<<"q","a">>, "qa">>,
      <<<<"q","u","e","s","t","i","o","n">>, "qa">>,
      <<<<"a","n","s","w","e","r">>, "qa">>>>

query_types ==
    <<<<<<"s","u","m","m","a","r","y">>, "summary">>,
      <<<<"o","v","e","r","v","i","e","w">>, "summary">>,
      <<<<"d","e","t","a","i","l">>, "details">>,
      <<<<"i","n","f","o","r","m","a","t","i","o","n">>, "details">>,
      <<<<"s","e","a","r","c","h">>, "search">>,
      <<<<"f","i","n","d">>, "search">>,
      <<<<"l","i","s","t">>, "list">>,
      <<<<"a","l","l">>, "list">>>>

Lit_novel == <<"n","o","v","e","l">>

Lit_character == <<"c","h","a","r","a","c","t","e","r">>

Lit_limit == <<"l","i","m","i","t">>

Lit_tag == <<"t","a","g">>

Lit_named == <<"n","a","m","e","d">>

Lit_called == <<"c","a","l","l","e","d">>

Lit_id == <<"i","d">>

Lit_ID == <<"I","D">>

\* first table entry, from index i on, whose keyword the lowercased query contains
RECURSIVE FirstContained(_, _, _)
FirstContained(table, query, i) ==
    IF i > Len(table) THEN None
    ELSE IF contains(to_lowercase(query), table[i][1]) THEN Some(table[i][2])
    ELSE FirstContained(table, query, i + 1)

\* a faulty variant of extract_collection: the keyword that occurs first in
\* the text wins
extract_collection_by_position(query) ==
    LET lower == to_lowercase(query)
        hits == {i \in DOMAIN collections : contains(lower, collections[i][1])}
        pos(i) == CHOOSE p \in 1..Len(lower) :
                     /\ StartsAt(lower, p, collections[i][1])
                     /\ \A q \in 1..(p - 1) : ~StartsAt(lower, q, collections[i][1])
    IN IF hits = {} THEN None
       ELSE Some(collections[CHOOSE i \in hits : \A j \in hits : pos(i) <= pos(j)][2])

extract_collection(query) == FirstContained(collections, query, 1)

extract_query_type(query) == FirstContained(query_types, query, 1)

RECURSIVE FilterKeywords(_)
FilterKeywords(words) ==
    IF words = <<>> THEN <<>>
    ELSE LET word == to_lowercase(words[1])
             trimmed == trim_matches_non_alnum(word)
             keep == trimmed \notin stop_words /\ Len(trimmed) > 2
         IN (IF keep THEN <<word>> ELSE <<>>) \o FilterKeywords(Tail(words))

extract_keywords(query) == FilterKeywords(split_whitespace(query))

\* novel\s+(?:id|ID)?\s*[:|=]?\s*([a-zA-Z0-9]+)
novel_regex ==
    <<ReLit(Lit_novel), ReRep(SpaceSet, 1, FALSE), ReOptAlt(<<Lit_id, Lit_ID>>),
      ReRep(SpaceSet, 0, FALSE), ReOpt(SepSet), ReRep(SpaceSet, 0, FALSE),
      ReRep(AlnumSet, 1, TRUE)>>

extract_novel_id(query) == captures(query, novel_regex)

\* character\s+(?:named|called)?\s*[:|=]?\s*([a-zA-Z\s]+)
char_regex ==
    <<ReLit(Lit_character), ReRep(SpaceSet, 1, FALSE), ReOptAlt(<<Lit_named, Lit_called>>),
      ReRep(SpaceSet, 0, FALSE), ReOpt(SepSet), ReRep(SpaceSet, 0, FALSE),
      ReRep(AlphaSet \cup SpaceSet, 1, TRUE)>>

\* .map(|m| m.as_str().trim().to_string())
map_trim(caps) == IF caps.some THEN Some(trim(caps.val)) ELSE None

extract_character_name(query) == map_trim(captures(query, char_regex))

\* tags?\s*[:|=]?\s*([a-zA-Z,\s]+)
tag_regex ==
    <<ReLit(Lit_tag), ReOpt({"s"}), ReRep(SpaceSet, 0, FALSE), ReOpt(SepSet),
      ReRep(SpaceSet, 0, FALSE), ReRep(AlphaSet \cup SpaceSet \cup {","}, 1, TRUE)>>

\* str::split(',') followed by trim and the removal of empty pieces
RECURSIVE SplitTags(_, _)
SplitTags(text, cur) ==
    IF text = <<>> THEN (IF trim(cur) = <<>> THEN <<>> ELSE <<trim(cur)>>)
    ELSE IF text[1] = ","
         THEN (IF trim(cur) = <<>> THEN <<>> ELSE <<trim(cur)>>) \o SplitTags(Tail(text), <<>>)
         ELSE SplitTags(Tail(text), Append(cur, text[1]))

\* the split of the captured text, Vec::new() without a match
split_or_empty(caps) == IF caps.some THEN SplitTags(caps.val, <<>>) ELSE <<>>

extract_tags(query) == split_or_empty(captures(query, tag_regex))

\* if !tags.is_empty() { filters.tags = Some(tags) }
some_if_not_empty(tags) == IF tags # <<>> THEN Some(tags) ELSE None

extract_filters(query) ==
    [novel_id |-> extract_novel_id(query),
     character_name |-> extract_character_name(query),
     tags |-> some_if_not_empty(extract_tags(query))]

U32MaxDigits == <<"4","2","9","4","9","6","7","2","9","5">>

RECURSIVE StripZeros(_)
StripZeros(ds) == IF Len(ds) > 1 /\ ds[1] = "0" THEN StripZeros(Tail(ds)) ELSE ds

RECURSIVE DigitsLess(_, _)
DigitsLess(a, b) ==   \* a < b for digit strings of equal length
    IF a = <<>> THEN FALSE
    ELSE IF a[1] # b[1] THEN DigitValue(a[1]) < DigitValue(b[1])
    ELSE DigitsLess(Tail(a), Tail(b))

RECURSIVE DecimalValue(_)
DecimalValue(ds) ==
    IF ds = <<>> THEN 0
    ELSE DecimalValue(SubSeq(ds, 1, Len(ds) - 1)) * 10 + DigitValue(ds[Len(ds)])

\* str::parse::<u32>().ok() on a non-empty digit string: None on overflow
checked_u32(sig) ==
    IF Len(sig) > Len(U32MaxDigits) \/ (Len(sig) = Len(U32MaxDigits) /\ DigitsLess(U32MaxDigits, sig))
    THEN None
    ELSE Some(DecimalValue(sig))

parse_u32(ds) == checked_u32(StripZeros(ds))

\* limit\s*[:|=]?\s*(\d+)
limit_regex ==
    <<ReLit(Lit_limit), ReRep(SpaceSet, 0, FALSE), ReOpt(SepSet), ReRep(SpaceSet, 0, FALSE),
      ReRep(DigitSet, 1, TRUE)>>

\* .and_then(|m| m.as_str().parse::<u32>().ok())
and_then_parse(caps) == IF caps.some THEN parse_u32(caps.val) ELSE None

extract_limit(query) == and_then_parse(captures(query, limit_regex))

unwrap_or(opt, default) == IF opt.some THEN opt.val ELSE default

parse_natural_language_query(query) ==
    [collection |-> unwrap_or(extract_collection(query), "novels"),
     query_type |-> unwrap_or(extract_query_type(query), "search"),
     keywords |-> extract_keywords(query),
     filters |-> Some(extract_filters(query)),
     limit |-> extract_limit(query)]

----------------------------------------------------------------------------
(* Bounds of the model *)

NumNovels == 6        \* records in the novels collection
NumChapters == 4      \* records in the chapters collection
NumCharacters == 6    \* records in the characters collection
NumQA == 4            \* records in the qa collection
MaxLimit == 4         \* largest explicit limit of a drawn search specification

----------------------------------------------------------------------------
(* bson::oid::ObjectId *)

OidLen == 24

HexDigits == <<"0","1","2","3","4","5","6","7","8","9","a","b","c","d","e","f">>

\* ObjectId::parse_str: exactly 24 hexadecimal characters, either case
parse_str(s) ==
    IF Len(s) = OidLen /\ \A i \in 1..Len(s) : s[i] \in HexSet
    THEN Ok(to_lowercase(s))
    ELSE Err("invalid_object_id")

\* the hexadecimal form of the identifier of record i of collection kind
OidHex(kind, i) ==
    [p \in 1..OidLen |->
        IF p = OidLen THEN HexDigits[(i % 16) + 1]
        ELSE IF p = OidLen - 1 THEN HexDigits[kind + 1]
        ELSE "0"]

----------------------------------------------------------------------------
(* The document store: four collections.  Only chapters is written by the  *)
(* server; the other three are read-only for it.                           *)

Txt_dragon == <<"d","r","a","g","o","n">>
Txt_magic == <<"m","a","g","i","c">>
Txt_war == <<"w","a","r">>
Txt_old == <<"o","l","d">>
Txt_new == <<"n","e","w">>
Txt_body == <<"b","o","d","y">>
Txt_ann == <<"A","n","n">>
Txt_hero == <<"h","e","r","o">>

Collections == {"novels", "chapters", "characters", "qa"}

\* models::domain::Novel
NovelDoc(i) ==
    [id |-> Some(OidHex(1, i)),
     title |-> IF i % 2 = 1 THEN Txt_dragon ELSE Txt_magic,
     author |-> Txt_ann,
     summary |-> Txt_war,
     tags |-> IF i % 3 = 0 THEN <<Txt_magic>> ELSE <<Txt_war>>]

\* models::domain::Chapter; stored out of chapter-number order
ChapterDoc(i) ==
    [id |-> Some(OidHex(2, i)),
     novel_id |-> OidHex(1, 1 + (i % 2)),
     number |-> NumChapters + 1 - i,
     title |-> IF i % 2 = 1 THEN Txt_dragon ELSE Txt_magic,
     summary |-> Txt_old,
     key_points |-> IF i = 1 THEN <<Txt_war>> ELSE <<>>,
     content |-> IF i % 2 = 1 THEN Some(Txt_body) ELSE None]

\* models::domain::Character; stored out of name order
CharacterDoc(i) ==
    [id |-> Some(OidHex(3, i)),
     novel_id |-> OidHex(1, 1 + (i % 2)),
     name |-> <<UpperAlpha[NumCharacters + 1 - i], "o", "b">>,
     role |-> Txt_hero,
     description |-> IF i % 2 = 1 THEN Txt_dragon ELSE Txt_magic,
     key_traits |-> <<Txt_war>>,
     relationships |-> <<>>]

\* models::domain::QA
QADoc(i) ==
    [id |-> Some(OidHex(4, i)),
     novel_id |-> IF i % 2 = 1 THEN Some(OidHex(1, 1)) ELSE None,
     question |-> IF i % 2 = 1 THEN Txt_magic ELSE Txt_dragon,
     answer |-> Txt_war,
     tags |-> <<Txt_magic>>]

novels == [i \in 1..NumNovels |-> NovelDoc(i)]
InitChapters == [i \in 1..NumChapters |-> ChapterDoc(i)]
characters == [i \in 1..NumCharacters |-> CharacterDoc(i)]
qa == [i \in 1..NumQA |-> QADoc(i)]

\* a failed store access (mongodb::error::Error through anyhow)
StoreError == "store_error"

----------------------------------------------------------------------------
(* MongoDB collection operations as db_service.rs uses them *)

\* byte order of the characters that occur in the model's strings
AsciiOrder ==
    <<" ", "!", "$", ",", "-", ".">> \o Digits \o <<":", "=", "?">> \o UpperAlpha
        \o <<"^", "_">> \o LowerAlpha \o <<"|">>

CharCode(c) == CHOOSE i \in DOMAIN AsciiOrder : AsciiOrder[i] = c

RECURSIVE TextLess(_, _)
TextLess(a, b) ==
    IF b = <<>> THEN FALSE
    ELSE IF a = <<>> THEN TRUE
    ELSE IF a[1] # b[1] THEN CharCode(a[1]) < CharCode(b[1])
    ELSE TextLess(Tail(a), Tail(b))

\* sort key comparison of FindOptions::sort(doc! { key: 1 })
SortLess(key, a, b) ==
    IF key = "number" THEN a.number < b.number ELSE TextLess(a.name, b.name)

RECURSIVE InsertSorted(_, _, _)
InsertSorted(key, d, sorted) ==
    IF sorted = <<>> THEN <<d>>
    ELSE IF SortLess(key, d, sorted[1]) THEN <<d>> \o sorted
    ELSE <<sorted[1]>> \o InsertSorted(key, d, Tail(sorted))

RECURSIVE SortDocs(_, _)
SortDocs(key, docs) ==
    IF docs = <<>> THEN <<>>
    ELSE InsertSorted(key, docs[Len(docs)], SortDocs(key, SubSeq(docs, 1, Len(docs) - 1)))

RECURSIVE SelectSeqBy(_, _, _)

\* $regex with $options "i", for a pattern made of an optional ^, literal
\* characters and an optional $
has_caret(p) == p # <<>> /\ p[1] = "^"
strip_caret(p) == IF has_caret(p) THEN Tail(p) ELSE p
has_dollar(p) == p # <<>> /\ p[Len(p)] = "$"
strip_dollar(p) == IF has_dollar(p) THEN SubSeq(p, 1, Len(p) - 1) ELSE p

literal_match(atStart, atEnd, lit, t) ==
    CASE atStart /\ atEnd -> t = lit
      [] atStart /\ ~atEnd -> StartsAt(t, 1, lit)
      [] ~atStart /\ atEnd -> Len(lit) <= Len(t) /\ StartsAt(t, Len(t) - Len(lit) + 1, lit)
      [] OTHER -> contains(t, lit)

\* a faulty variant of regex_is_match: without the option "i"
regex_is_match_case_sensitive(pattern, text) ==
    literal_match(has_caret(pattern), has_dollar(strip_caret(pattern)),
                  strip_dollar(strip_caret(pattern)), text)

regex_is_match(pattern, text) ==
    literal_match(has_caret(pattern), has_dollar(strip_caret(pattern)),
                  to_lowercase(strip_dollar(strip_caret(pattern))), to_lowercase(text))

\* the string fields a regex filter of the collection looks at ($or of fields;
\* an array field matches when one of its elements does)
RegexFields(coll, d) ==
    CASE coll = "qa" -> <<d.question, d.answer>>
      [] coll = "chapters" -> <<d.title, d.summary>> \o d.key_points
      [] coll = "characters" -> <<d.name, d.description>> \o d.key_traits
      [] OTHER -> <<>>

\* the words of the text-indexed fields of a document
TextWords(coll, d) ==
    LET fields == CASE coll = "novels" -> <<d.title, d.summary>>
                    [] coll = "chapters" -> <<d.title, d.summary>>
                    [] coll = "characters" -> <<d.name, d.description>>
                    [] OTHER -> <<d.question, d.answer>>
        words == split_whitespace(join(fields, <<" ">>))
    IN {trim_matches_non_alnum(to_lowercase(words[i])) : i \in DOMAIN words}

\* $text $search: some term of the search string is a word of the document
text_matches(coll, d, search) ==
    LET terms == split_whitespace(search)
    IN \E i \in DOMAIN terms :
          trim_matches_non_alnum(to_lowercase(terms[i])) \in TextWords(coll, d)

DocNovelId(coll, d) ==
    IF coll = "qa" THEN d.novel_id ELSE IF coll = "novels" THEN None ELSE Some(d.novel_id)

\* a filter document; absent keys are None
EmptyFilter ==
    [text |-> None, novel_id |-> None, tags_in |-> None, name_regex |-> None,
     or_regex |-> None, id |-> None]

any_matches(pattern, fields) == \E k \in DOMAIN fields : regex_is_match(pattern, fields[k])

filter_matches(coll, d, f) ==
    /\ f.text.some => text_matches(coll, d, f.text.val)
    /\ f.novel_id.some => DocNovelId(coll, d) = Some(f.novel_id.val)
    /\ f.tags_in.some => (Range(d.tags) \cap Range(f.tags_in.val)) # {}
    /\ f.name_regex.some => regex_is_match(f.name_regex.val, d.name)
    /\ f.or_regex.some => any_matches(f.or_regex.val, RegexFields(coll, d))
    /\ f.id.some => d.id = Some(f.id.val)

SelectSeqBy(coll, docs, f) ==
    IF docs = <<>> THEN <<>>
    ELSE (IF filter_matches(coll, docs[1], f) THEN <<docs[1]>> ELSE <<>>)
            \o SelectSeqBy(coll, Tail(docs), f)

\* FindOptions::limit: 0 means no limit
cursor_limit(docs, n) ==
    IF n = 0 \/ n >= Len(docs) THEN docs ELSE SubSeq(docs, 1, n)

\* the collection's documents as the store holds them
CollectionDocs(db, coll) ==
    CASE coll = "novels" -> novels
      [] coll = "chapters" -> db.chapters
      [] coll = "characters" -> characters
      [] OTHER -> qa

\* a faulty variant of sort_docs: the documents stay in store order
sort_docs_store_order(sortKey, docs) == docs

\* FindOptions::sort
sort_docs(sortKey, docs) == IF sortKey.some THEN SortDocs(sortKey.val, docs) ELSE docs

\* Collection::find(filter, options) collected: the matching documents in
\* sort order (store order when unsorted), cut at the limit; an error when
\* the access to the collection fails
find(db, coll, f, sortKey, limit) ==
    IF coll \in db.down THEN Err(StoreError)
    ELSE Ok(cursor_limit(sort_docs(sortKey, SelectSeqBy(coll, CollectionDocs(db, coll), f)), limit))

\* a faulty variant of update_one_summary: the filter is dropped and the
\* summary of every chapter is set
update_one_summary_unfiltered(db, id, s) ==
    IF "chapters" \in db.down THEN Err(StoreError)
    ELSE Ok([matched_count |-> IF \E i \in DOMAIN db.chapters : db.chapters[i].id = Some(id)
                               THEN 1 ELSE 0,
             chapters |-> [i \in DOMAIN db.chapters |-> [db.chapters[i] EXCEPT !.summary = s]]])

\* a faulty variant of update_one_summary: the update document has no $set
\* and replaces the chapter, which loses its key points and its content
update_one_summary_replacing(db, id, s) ==
    IF "chapters" \in db.down THEN Err(StoreError)
    ELSE Ok([matched_count |-> IF \E i \in DOMAIN db.chapters : db.chapters[i].id = Some(id)
                               THEN 1 ELSE 0,
             chapters |-> [i \in DOMAIN db.chapters |->
                             IF db.chapters[i].id = Some(id)
                             THEN [db.chapters[i] EXCEPT !.summary = s, !.key_points = <<>>,
                                                         !.content = None]
                             ELSE db.chapters[i]]])

\* Collection::update_one(doc! { "_id": id }, doc! { "$set": { "summary": s } }):
\* the new collection and the matched count
update_one_summary(db, id, s) ==
    IF "chapters" \in db.down THEN Err(StoreError)
    ELSE LET hit == {i \in DOMAIN db.chapters : db.chapters[i].id = Some(id)}
             first == IF hit = {} THEN 0 ELSE CHOOSE i \in hit : \A j \in hit : i <= j
         IN Ok([matched_count |-> IF hit = {} THEN 0 ELSE 1,
                chapters |-> [i \in DOMAIN db.chapters |->
                                IF i = first
                                THEN [db.chapters[i] EXCEPT !.summary = s]
                                ELSE db.chapters[i]]])

----------------------------------------------------------------------------
(* services/db_service.rs: impl DatabaseService for Arc<MongoDBService>.   *)
(* db is the store as the call finds it: [chapters, down], down the set of *)
(* collections whose access fails.  Every operation returns its Result,    *)
(* the store operations it issued (the collection of each, in order) and   *)
(* the chapters collection it leaves.  token_count and query_time_ms of    *)
(* the metadata are not modelled.                                          *)

DbOut(res, ops, ch) == [res |-> res, ops |-> ops, chapters |-> ch]

DefaultLimitNovels == 5
DefaultLimitChapters == 3
DefaultLimitCharacters == 5
DefaultLimitQA == 3

Txt_page_token == <<"p","a","g","e","_","t","o","k","e","n","_">>

\* a faulty variant of format_response: a page token on every response
format_response_always_token(data, has_more) ==
    [status |-> "success",
     data |-> data,
     metadata |-> [has_more |-> has_more, next_page_token |-> Some(Txt_page_token)]]

\* MongoDBService::format_response
format_response(data, has_more) ==
    [status |-> "success",
     data |-> data,
     metadata |-> [has_more |-> has_more,
                   next_page_token |-> IF has_more THEN Some(Txt_page_token) ELSE None]]

\* build_text_search_filter
build_text_search_filter(keywords) ==
    IF keywords = <<>> THEN EmptyFilter
    ELSE [EmptyFilter EXCEPT !.text = Some(join(keywords, <<" ">>))]

\* the novel_id filter: inserted only when the string parses as an ObjectId
with_novel_id(filter, params) ==
    IF params.filters.some /\ params.filters.val.novel_id.some
       /\ parse_str(params.filters.val.novel_id.val).ok
    THEN [filter EXCEPT !.novel_id = Some(parse_str(params.filters.val.novel_id.val).val)]
    ELSE filter

with_tags(filter, params) ==
    IF params.filters.some /\ params.filters.val.tags.some
    THEN [filter EXCEPT !.tags_in = params.filters.val.tags]
    ELSE filter

with_character_name(filter, params) ==
    IF params.filters.some /\ params.filters.val.character_name.some
    THEN [filter EXCEPT !.name_regex = params.filters.val.character_name]
    ELSE filter

\* a faulty variant of page_of: has_more = len >= limit
page_of_at_limit(found, limit) ==
    format_response(IF Len(found) >= limit /\ found # <<>>
                    THEN SubSeq(found, 1, Len(found) - 1) ELSE found,
                    Len(found) >= limit)

\* has_more = len > limit; the extra item is popped
page_of(found, limit) ==
    format_response(IF Len(found) > limit THEN SubSeq(found, 1, Len(found) - 1) ELSE found,
                    Len(found) > limit)

\* a faulty variant of compact_chapter: the content stays
compact_chapter_with_content(chapter) == chapter

\* the compact chapter: content excluded
compact_chapter(chapter) == [chapter EXCEPT !.content = None]

\* the documents of a cursor made compact (projection { "content": 0 })
compact_cursor(cursor) ==
    IF cursor.ok THEN Ok([i \in DOMAIN cursor.val |-> compact_chapter(cursor.val[i])]) ELSE cursor

\* the tail of the four searches: the cursor's error is returned (?), else
\* the page is cut and wrapped by format_response
searched(db, coll, cursor, limit) ==
    IF ~cursor.ok THEN DbOut(Err(cursor.err), <<coll>>, db.chapters)
    ELSE DbOut(Ok(page_of(cursor.val, limit)), <<coll>>, db.chapters)

\* the filter document each search builds from the search parameters
search_filter(coll, params) ==
    CASE coll = "novels" -> with_tags(build_text_search_filter(params.keywords), params)
      [] coll = "chapters" -> with_novel_id(build_text_search_filter(params.keywords), params)
      [] coll = "characters" ->
             with_character_name(
                 with_novel_id(build_text_search_filter(params.keywords), params), params)
      [] OTHER ->
             with_tags(with_novel_id(build_text_search_filter(params.keywords), params), params)

search_novels(db, params) ==
    searched(db, "novels",
             find(db, "novels", search_filter("novels", params),
                  None, unwrap_or(params.limit, DefaultLimitNovels) + 1),
             unwrap_or(params.limit, DefaultLimitNovels))

search_chapters(db, params) ==
    searched(db, "chapters",
             compact_cursor(
                 find(db, "chapters", search_filter("chapters", params),
                      Some("number"), unwrap_or(params.limit, DefaultLimitChapters) + 1)),
             unwrap_or(params.limit, DefaultLimitChapters))

search_characters(db, params) ==
    searched(db, "characters",
             find(db, "characters", search_filter("characters", params),
                  Some("name"), unwrap_or(params.limit, DefaultLimitCharacters) + 1),
             unwrap_or(params.limit, DefaultLimitCharacters))

search_qa(db, params) ==
    searched(db, "qa",
             find(db, "qa", search_filter("qa", params),
                  None, unwrap_or(params.limit, DefaultLimitQA) + 1),
             unwrap_or(params.limit, DefaultLimitQA))

\* the tail of the regex searches: the cursor's error (?), else all documents
collected(db, coll, cursor) ==
    IF ~cursor.ok THEN DbOut(Err(cursor.err), <<coll>>, db.chapters)
    ELSE DbOut(Ok(cursor.val), <<coll>>, db.chapters)

regex_filter(regex_pattern) == [EmptyFilter EXCEPT !.or_regex = Some(regex_pattern)]

search_qa_by_regex(db, regex_pattern) ==
    collected(db, "qa", find(db, "qa", regex_filter(regex_pattern), None, 0))

\* projection { "content": 0 }: the documents come back without content
search_chapters_by_regex(db, regex_pattern) ==
    collected(db, "chapters",
              compact_cursor(find(db, "chapters", regex_filter(regex_pattern), None, 0)))

search_characters_by_regex(db, regex_pattern) ==
    collected(db, "characters", find(db, "characters", regex_filter(regex_pattern), None, 0))

\* a faulty variant of update_result: matched_count is not looked at
update_result_unchecked(db, result) ==
    IF ~result.ok THEN DbOut(Err(result.err), <<"chapters">>, db.chapters)
    ELSE DbOut(Ok("unit"), <<"chapters">>, result.val.chapters)

\* update_one(...).await?, then matched_count == 0 is the not-found error
update_result(db, result) ==
    IF ~result.ok THEN DbOut(Err(result.err), <<"chapters">>, db.chapters)
    ELSE IF result.val.matched_count = 0
         THEN DbOut(Err("Chapter not found"), <<"chapters">>, result.val.chapters)
    ELSE DbOut(Ok("unit"), <<"chapters">>, result.val.chapters)

\* ObjectId::parse_str(chapter_id)? comes first
update_with_id(db, object_id, new_summary) ==
    IF ~object_id.ok THEN DbOut(Err(object_id.err), <<>>, db.chapters)
    ELSE update_result(db, update_one_summary(db, object_id.val, new_summary))

update_chapter_summary(db, chapter_id, new_summary) ==
    update_with_id(db, parse_str(chapter_id), new_summary)

AllCollections == <<"novels", "chapters", "characters", "qa">>

\* a faulty variant of joined: a failed sub-search contributes an empty list
joined_tolerant(db, novels_result, chapters_result, characters_result, qa_result) ==
    DbOut(Ok([novels |-> IF novels_result.ok THEN novels_result.val.data ELSE <<>>,
              chapters |-> IF chapters_result.ok THEN chapters_result.val.data ELSE <<>>,
              characters |-> IF characters_result.ok THEN characters_result.val.data ELSE <<>>,
              qa |-> IF qa_result.ok THEN qa_result.val.data ELSE <<>>]),
          db.order, db.chapters)

\* let novels_data = novels_result?.data; ... in the order novels, chapters,
\* characters, qa; the store was accessed in the order the join polled the
\* four futures to their find
joined(db, novels_result, chapters_result, characters_result, qa_result) ==
    IF ~novels_result.ok THEN DbOut(Err(novels_result.err), db.order, db.chapters)
    ELSE IF ~chapters_result.ok THEN DbOut(Err(chapters_result.err), db.order, db.chapters)
    ELSE IF ~characters_result.ok THEN DbOut(Err(characters_result.err), db.order, db.chapters)
    ELSE IF ~qa_result.ok THEN DbOut(Err(qa_result.err), db.order, db.chapters)
    ELSE DbOut(Ok([novels |-> novels_result.val.data,
                   chapters |-> chapters_result.val.data,
                   characters |-> characters_result.val.data,
                   qa |-> qa_result.val.data]), db.order, db.chapters)

\* the four searches run concurrently and all complete (tokio::join!)
\* before the first error is looked at
search_all(db, params) ==
    joined(db, search_novels(db, params).res, search_chapters(db, params).res,
           search_characters(db, params).res, search_qa(db, params).res)

Txt_summary_prefix == <<"S","u","m","m","a","r","y",":"," ">>

\* the content when the chapter has one, else "Summary: " and the summary;
\* None when no chapter has the identifier
content_of(db, found) ==
    IF ~found.ok THEN DbOut(Err(found.err), <<"chapters">>, db.chapters)
    ELSE IF found.val = <<>> THEN DbOut(Ok(None), <<"chapters">>, db.chapters)
    ELSE IF found.val[1].content.some
         THEN DbOut(Ok(Some(found.val[1].content.val)), <<"chapters">>, db.chapters)
    ELSE DbOut(Ok(Some(Txt_summary_prefix \o found.val[1].summary)), <<"chapters">>, db.chapters)

id_filter(object_id) == [EmptyFilter EXCEPT !.id = Some(object_id.val)]

\* an identifier that does not parse gives Ok(None) without a store access
chapter_by_id(db, object_id) ==
    IF ~object_id.ok THEN DbOut(Ok(None), <<>>, db.chapters)
    ELSE content_of(db, find(db, "chapters", id_filter(object_id), None, 1))

get_chapter_content(db, chapter_id) == chapter_by_id(db, parse_str(chapter_id))

details_of(db, found) ==
    IF ~found.ok THEN DbOut(Err(found.err), <<"characters">>, db.chapters)
    ELSE IF found.val = <<>> THEN DbOut(Ok(None), <<"characters">>, db.chapters)
    ELSE DbOut(Ok(Some(found.val[1])), <<"characters">>, db.chapters)

character_by_id(db, object_id) ==
    IF ~object_id.ok THEN DbOut(Ok(None), <<>>, db.chapters)
    ELSE details_of(db, find(db, "characters", id_filter(object_id), None, 1))

get_character_details(db, character_id) == character_by_id(db, parse_str(character_id))

----------------------------------------------------------------------------
(* mcp/server.rs: formatting.  A rendered string is modelled by its parts: *)
(* the kind of message, the collection or entity name it carries, the      *)
(* count it prints and the records it lists.                               *)

NoResultsText(collection) == [fmt |-> "no_results", about |-> collection, count |-> 0, items |-> <<>>]
FoundText(what, items) == [fmt |-> "found", about |-> what, count |-> Len(items), items |-> items]

format_novels(items) == FoundText("novels", items)
format_chapters(items) == FoundText("chapters", items)
format_characters(items) == FoundText("characters", items)
format_qa(items) == FoundText("Q&A entries", items)

format_content_for_llm(data, params) ==
    IF data = <<>> THEN NoResultsText(params.collection)
    ELSE CASE params.collection = "novels" -> format_novels(data)
           [] params.collection = "chapters" -> format_chapters(data)
           [] params.collection = "characters" -> format_characters(data)
           [] params.collection = "qa" -> format_qa(data)
           [] OTHER -> [fmt |-> "raw", about |-> params.collection, count |-> Len(data), items |-> data]

----------------------------------------------------------------------------
(* mcp/server.rs: the tool methods of MCPDatabaseServer, Result<String, String> *)

Txt_trusted_llm_token == <<"t","r","u","s","t","e","d","_","l","l","m","_","t","o","k","e","n">>

ToolErr(msg, cause) == Err([msg |-> msg, cause |-> cause])

\* .map_err(|e| format!("<msg>: {}", e))? on the result of a store call
map_err(out, msg) ==
    IF out.res.ok THEN out ELSE DbOut(ToolErr(msg, out.res.err), out.ops, out.chapters)

\* Ok(formatting::format_content_for_llm(&db_result.data, &search_params))
query_formatted(search_params, out) ==
    IF ~out.res.ok THEN out
    ELSE DbOut(Ok(format_content_for_llm(out.res.val.data, search_params)), out.ops, out.chapters)

\* the match on search_params.collection
query_parsed(db, search_params) ==
    IF search_params.collection \notin Collections
    THEN DbOut(ToolErr("Unknown collection type", search_params.collection), <<>>, db.chapters)
    ELSE query_formatted(
             search_params,
             map_err(CASE search_params.collection = "novels" -> search_novels(db, search_params)
                       [] search_params.collection = "chapters" -> search_chapters(db, search_params)
                       [] search_params.collection = "characters" ->
                              search_characters(db, search_params)
                       [] OTHER -> search_qa(db, search_params),
                     "Database error"))

tool_query(db, query) == query_parsed(db, parse_natural_language_query(query))

\* chapters.get(0): the first document as JSON, or the not-found error
first_or_not_found(out, what, id) ==
    IF ~out.res.ok THEN out
    ELSE IF out.res.val # <<>>
         THEN DbOut(Ok([fmt |-> "json", about |-> what, count |-> 1, items |-> <<out.res.val[1]>>]),
                    out.ops, out.chapters)
    ELSE DbOut(ToolErr("not found", [what |-> what, id |-> id]), out.ops, out.chapters)

\* the chapter is looked up with the regex ^{chapter_id}$
tool_get_chapter_content(db, chapter_id) ==
    first_or_not_found(
        map_err(search_chapters_by_regex(db, <<"^">> \o chapter_id \o <<"$">>),
                "Failed to retrieve chapter"),
        "chapter", chapter_id)

tool_get_character_details(db, character_id) ==
    first_or_not_found(
        map_err(search_characters_by_regex(db, <<"^">> \o character_id \o <<"$">>),
                "Failed to retrieve character"),
        "character", character_id)

ok_format_qa(out) ==
    IF ~out.res.ok THEN out ELSE DbOut(Ok(format_qa(out.res.val)), out.ops, out.chapters)

ok_format_chapters(out) ==
    IF ~out.res.ok THEN out ELSE DbOut(Ok(format_chapters(out.res.val)), out.ops, out.chapters)

ok_format_characters(out) ==
    IF ~out.res.ok THEN out ELSE DbOut(Ok(format_characters(out.res.val)), out.ops, out.chapters)

tool_query_qa_regex(db, regex_pattern) ==
    ok_format_qa(map_err(search_qa_by_regex(db, regex_pattern), "Failed to search Q&A entries"))

tool_query_chapter_regex(db, regex_pattern) ==
    ok_format_chapters(
        map_err(search_chapters_by_regex(db, regex_pattern), "Failed to search chapters"))

tool_query_character_regex(db, regex_pattern) ==
    ok_format_characters(
        map_err(search_characters_by_regex(db, regex_pattern), "Failed to search characters"))

ok_updated(out) ==
    IF ~out.res.ok THEN out
    ELSE DbOut(Ok([fmt |-> "text", about |-> "Chapter summary updated successfully",
                   count |-> 0, items |-> <<>>]), out.ops, out.chapters)

\* compiled only with feature mcp_write_access
tool_update_chapter_summary(db, chapter_id, summary, auth_token) ==
    IF auth_token # Txt_trusted_llm_token
    THEN DbOut(ToolErr("Invalid or missing authentication token", auth_token), <<>>, db.chapters)
    ELSE ok_updated(map_err(update_chapter_summary(db, chapter_id, summary),
                            "Failed to update chapter summary"))

----------------------------------------------------------------------------
----------------------------------------------------------------------------
(* mcp/server.rs: the direct methods, Result<CallToolResult, rmcp::Error> *)

InvalidParamsCode == -32602   \* rmcp ErrorCode::INVALID_PARAMS
InternalErrorCode == -32603   \* rmcp ErrorCode::INTERNAL_ERROR
PermissionDeniedCode == 403

RmcpError(code, message) == [code |-> code, message |-> message, data |-> None]

\* Error::invalid_params(e, None)
invalid_params(message) == RmcpError(InvalidParamsCode, message)

\* Error::internal_error(e, None)
internal_error(message) == RmcpError(InternalErrorCode, message)

CallToolResult(content, is_error) == [content |-> <<content>>, is_error |-> is_error]

\* Ok(content) => CallToolResult, Err(e) => Error::invalid_params(e, None)
direct(out) ==
    IF out.res.ok
    THEN DbOut(Ok(CallToolResult(out.res.val, None)), out.ops, out.chapters)
    ELSE DbOut(Err(invalid_params(out.res.err)), out.ops, out.chapters)

server_handle_query(db, query) == direct(tool_query(db, query))

server_handle_chapter_content(db, chapter_id) == direct(tool_get_chapter_content(db, chapter_id))

server_handle_character_details(db, character_id) ==
    direct(tool_get_character_details(db, character_id))

server_handle_qa_regex(db, regex) == direct(tool_query_qa_regex(db, regex))

server_handle_chapter_regex(db, regex) == direct(tool_query_chapter_regex(db, regex))

server_handle_character_regex(db, regex) == direct(tool_query_character_regex(db, regex))

\* with the feature the call is made with the built-in token; without it the
\* method answers with code 403
server_handle_chapter_summary_update(db, wa, chapter_id, summary) ==
    IF wa
    THEN direct(tool_update_chapter_summary(db, chapter_id, summary, Txt_trusted_llm_token))
    ELSE DbOut(Err(RmcpError(PermissionDeniedCode, "Write access not enabled in this build")),
               <<>>, db.chapters)

----------------------------------------------------------------------------
(* serde_json values and mcp/protocol.rs *)

JStr(v) == [t |-> "string", v |-> v]
JNum(v) == [t |-> "number", n |-> v]

\* Value::as_str
as_str(j) == IF j.t = "string" THEN Some(j.v) ELSE None

\* HashMap::get(key).and_then(|v| v.as_str()); a map is the function that
\* gives each key it may hold the Option of its value
get_str(options, key) ==
    IF key \in DOMAIN options /\ options[key].some THEN as_str(options[key].val) ELSE None

MCPErrorOf(code, message, data) == [code |-> code, message |-> message, data |-> data]
MCPResultOf(content, metadata) == [content |-> content, metadata |-> metadata]
MCPResponseOf(id, result, error) ==
    [jsonrpc |-> "2.0", id |-> id, result |-> result, error |-> error]

\* serde_json::from_str::<MCPRequest>: jsonrpc, method, params and
\* params.query are required (query is declared String); id is optional
from_str(body) ==
    IF body.kind = "json" /\ body.query.some /\ as_str(body.query.val).some
    THEN Ok([jsonrpc |-> body.jsonrpc, id |-> body.id, method |-> body.method,
             params |-> [query |-> as_str(body.query.val), options |-> body.options]])
    ELSE Err("serde_json::Error")

----------------------------------------------------------------------------
(* utils/mod.rs *)

UnauthorizedCode == -32604

TRUSTED_TOKENS == {Txt_trusted_llm_token}

validate_auth_token(options) ==
    LET token == get_str(options, "auth_token")
    IN IF token.some THEN token.val \in TRUSTED_TOKENS ELSE FALSE

unauthorized_error ==
    [code |-> UnauthorizedCode, message |-> "Invalid or missing authentication token"]

----------------------------------------------------------------------------
(* handlers/rmcp_handler.rs *)

ParseErrorCode == -32700
InvalidRequestCode == -32600
MethodNotFoundCode == -32601
MissingParamCode == -32602

\* call_tool_result_to_mcp_result: metadata stays empty, hence None
call_tool_result_to_mcp_result(result) == MCPResultOf(result.content, None)

\* impl From<CallToolResult> for MCPResult
mcp_result_from(result) == MCPResultOf(result.content, Some([token_count |-> -1]))

convert_error(error) == MCPErrorOf(error.code, error.message, error.data)

MissingParam(message, db) ==
    DbOut(Err(MCPErrorOf(MissingParamCode, message, None)), <<>>, db.chapters)

\* .map(call_tool_result_to_mcp_result).map_err(convert_error)
mapped(out) ==
    IF out.res.ok
    THEN DbOut(Ok(call_tool_result_to_mcp_result(out.res.val)), out.ops, out.chapters)
    ELSE DbOut(Err(convert_error(out.res.err)), out.ops, out.chapters)

\* .map(Into::into).map_err(convert_error)
mapped_into(out) ==
    IF out.res.ok
    THEN DbOut(Ok(mcp_result_from(out.res.val)), out.ops, out.chapters)
    ELSE DbOut(Err(convert_error(out.res.err)), out.ops, out.chapters)

handle_query(db, params) ==
    IF params.query.some
    THEN mapped(server_handle_query(db, params.query.val))
    ELSE MissingParam("Missing query parameter", db)

handle_chapter_content(db, params) ==
    LET chapter_id == get_str(params.options, "chapter_id")
    IN IF ~chapter_id.some THEN MissingParam("Missing chapter_id parameter", db)
       ELSE mapped(server_handle_chapter_content(db, chapter_id.val))

handle_character_details(db, params) ==
    LET character_id == get_str(params.options, "character_id")
    IN IF ~character_id.some THEN MissingParam("Missing character_id parameter", db)
       ELSE mapped(server_handle_character_details(db, character_id.val))

handle_qa_regex(db, params) ==
    LET regex_pattern == get_str(params.options, "regex_pattern")
    IN IF ~regex_pattern.some THEN MissingParam("Missing regex_pattern parameter", db)
       ELSE mapped(server_handle_qa_regex(db, regex_pattern.val))

handle_chapter_regex(db, params) ==
    LET regex_pattern == get_str(params.options, "regex_pattern")
    IN IF ~regex_pattern.some THEN MissingParam("Missing regex_pattern parameter", db)
       ELSE mapped_into(server_handle_chapter_regex(db, regex_pattern.val))

handle_character_regex(db, params) ==
    LET regex_pattern == get_str(params.options, "regex_pattern")
    IN IF ~regex_pattern.some THEN MissingParam("Missing regex_pattern parameter", db)
       ELSE mapped_into(server_handle_character_regex(db, regex_pattern.val))

\* only chapter_id and summary are read from the options
handle_chapter_summary_update(db, wa, params) ==
    LET chapter_id == get_str(params.options, "chapter_id")
        summary == get_str(params.options, "summary")
    IN IF ~chapter_id.some THEN MissingParam("Missing chapter_id parameter", db)
       ELSE IF ~summary.some THEN MissingParam("Missing summary parameter", db)
       ELSE mapped_into(server_handle_chapter_summary_update(db, wa, chapter_id.val, summary.val))

CapabilityMethods ==
    <<"query", "get_chapter_content", "get_character_details", "query_qa_regex",
      "query_chapter_regex", "query_character_regex", "update_chapter_summary",
      "mcp.capabilities", "mcp.prompts">>

handle_capabilities(db) ==
    DbOut(Ok(MCPResultOf([fmt |-> "text", about |-> "", count |-> 0, items |-> <<>>],
                         Some([capabilities |-> CapabilityMethods]))), <<>>, db.chapters)

handle_prompts(db) ==
    DbOut(Ok(MCPResultOf([fmt |-> "text", about |-> "prompts", count |-> 5, items |-> <<>>],
                         Some([token_count |-> 0]))), <<>>, db.chapters)

handle_initialize(db, params) ==
    DbOut(Ok(MCPResultOf([fmt |-> "text", about |-> "", count |-> 0, items |-> <<>>],
                         Some([server_info |-> "MCP MongoDB Server"]))), <<>>, db.chapters)

\* an HTTP reply: status, and the JSON-RPC envelope when the body is one
Reply(status, envelope) == [status |-> status, envelope |-> envelope]

HandlerOut(reply, ops, ch) == [reply |-> reply, ops |-> ops, chapters |-> ch]

\* a faulty variant of format_error_response: the id is left out
format_error_response_null_id(id, code, message, data) ==
    Reply(200, Some(MCPResponseOf(None, None, Some(MCPErrorOf(code, message, data)))))

format_error_response(id, code, message, data) ==
    Reply(200, Some(MCPResponseOf(id, None, Some(MCPErrorOf(code, message, data)))))

format_notification_received == Reply(204, None)

\* a faulty variant of response_of: the error envelope keeps an empty result
response_of_keeping_result(id, result) ==
    IF result.ok
    THEN MCPResponseOf(id, Some(result.val), None)
    ELSE MCPResponseOf(id, Some(MCPResultOf("", None)), Some(result.err))

\* the envelope built from the handler's Result (rmcp_http_handler, match result)
response_of(id, result) ==
    IF result.ok
    THEN MCPResponseOf(id, Some(result.val), None)
    ELSE MCPResponseOf(id, None, Some(result.err))

\* the method table of rmcp_http_handler
route(db, wa, request) ==
    CASE request.method = "query" -> handle_query(db, request.params)
      [] request.method = "get_chapter_content" -> handle_chapter_content(db, request.params)
      [] request.method = "get_character_details" -> handle_character_details(db, request.params)
      [] request.method = "query_qa_regex" -> handle_qa_regex(db, request.params)
      [] request.method = "query_chapter_regex" -> handle_chapter_regex(db, request.params)
      [] request.method = "query_character_regex" -> handle_character_regex(db, request.params)
      [] request.method = "update_chapter_summary" ->
            handle_chapter_summary_update(db, wa, request.params)
      [] request.method = "mcp.capabilities" -> handle_capabilities(db)
      [] request.method = "mcp.prompts" -> handle_prompts(db)
      [] request.method = "initialize" -> handle_initialize(db, request.params)
      [] request.method = "notifications/initialized" ->
            DbOut(Ok(MCPResultOf([fmt |-> "text", about |-> "", count |-> 0, items |-> <<>>], None)),
                  <<>>, db.chapters)
      [] OTHER -> DbOut(Err(MCPErrorOf(MethodNotFoundCode, "Method not found", None)),
                        <<>>, db.chapters)

\* the reply to a request that was routed: status 200 and the envelope
responded(id, out) ==
    HandlerOut(Reply(200, Some(response_of(id, out.res))), out.ops, out.chapters)

\* the version check, the notification short-circuit, then the method table
handle_request(db, wa, request) ==
    IF request.jsonrpc # "2.0"
    THEN HandlerOut(format_error_response(request.id, InvalidRequestCode,
                                          "Invalid JSON-RPC version. Expected 2.0", None),
                    <<>>, db.chapters)
    ELSE IF request.method = "notifications/initialized" /\ ~request.id.some
    THEN HandlerOut(format_notification_received, <<>>, db.chapters)
    ELSE responded(request.id, route(db, wa, request))

\* match serde_json::from_str::<MCPRequest>(&request_str)
handle_parsed(db, wa, parsed) ==
    IF ~parsed.ok
    THEN HandlerOut(format_error_response(None, ParseErrorCode, "Invalid JSON in request body", None),
                    <<>>, db.chapters)
    ELSE handle_request(db, wa, parsed.val)

\* a body over the size limit or not UTF-8 is answered 400 Bad Request
rmcp_http_handler(db, wa, body) ==
    IF body.kind \in {"too_large", "invalid_utf8"}
    THEN HandlerOut(Reply(400, None), <<>>, db.chapters)
    ELSE handle_parsed(db, wa, from_str(body))

----------------------------------------------------------------------------
(* handlers/mcp_handler.rs: the formatters and MpcHandler::call_tool *)

SectionCap == 3

ListText(what, items) ==
    IF items = <<>> THEN [fmt |-> "no_results", about |-> what, count |-> 0, items |-> <<>>]
    ELSE [fmt |-> "list", about |-> what, count |-> Len(items), items |-> items]

mpc_format_novels(items) == ListText("novels", items)
mpc_format_chapters(items) == ListText("chapters", items)
mpc_format_characters(items) == ListText("characters", items)
mpc_format_qa(items) == ListText("Q&A entries", items)

\* a take that does not cut the sequence
take_uncapped(items, n) == items

\* iter().take(3)
take(items, n) == IF Len(items) <= n THEN items ELSE SubSeq(items, 1, n)

\* one section per non-empty result set, in the order novels, characters,
\* chapters, qa; total_count adds the full lengths
format_all_results(results) ==
    LET section(name, items) ==
            IF items = <<>> THEN <<>>
            ELSE <<[name |-> name, top |-> IF Len(items) < SectionCap THEN Len(items) ELSE SectionCap,
                    items |-> take(items, SectionCap)]>>
        sections == section("NOVELS", results.novels) \o section("CHARACTERS", results.characters)
                        \o section("CHAPTERS", results.chapters) \o section("Q&A", results.qa)
        total_count == Len(results.novels) + Len(results.characters)
                           + Len(results.chapters) + Len(results.qa)
    IN IF sections = <<>>
       THEN [fmt |-> "no_results", about |-> "", count |-> 0, items |-> <<>>]
       ELSE [fmt |-> "summary", about |-> "", count |-> total_count, items |-> sections]

\* format_character_details of a character that was found
format_character_details(character) ==
    [fmt |-> "details", about |-> "character", count |-> 1, items |-> <<character>>]

\* a panic of the task that handles the request (Option::unwrap on None)
Panicked == [ok |-> FALSE, panic |-> TRUE]
IsPanic(res) == "panic" \in DOMAIN res

ToolOk(content) == Ok(CallToolResult(content, Some(FALSE)))

\* .map_err(|e| RmcpError::internal_error(format!("Database error: {}", e), None))?
db_error(out) ==
    IF out.res.ok THEN out
    ELSE DbOut(Err(internal_error([msg |-> "Database error", cause |-> out.res.err])),
               out.ops, out.chapters)

\* the second match on collection: the formatter of the collection
formatted_collection(collection, out) ==
    IF ~out.res.ok THEN out
    ELSE DbOut(ToolOk(CASE collection = "novels" -> mpc_format_novels(out.res.val.data)
                        [] collection = "chapters" -> mpc_format_chapters(out.res.val.data)
                        [] collection = "characters" -> mpc_format_characters(out.res.val.data)
                        [] OTHER -> mpc_format_qa(out.res.val.data)),
               out.ops, out.chapters)

formatted_all(out) ==
    IF ~out.res.ok THEN out
    ELSE DbOut(ToolOk(format_all_results(out.res.val)), out.ops, out.chapters)

\* the first match on collection: one collection, or all of them
query_database_with(db, collection, search_params) ==
    IF collection \in Collections
    THEN formatted_collection(
             collection,
             db_error(CASE collection = "novels" -> search_novels(db, search_params)
                        [] collection = "chapters" -> search_chapters(db, search_params)
                        [] collection = "characters" -> search_characters(db, search_params)
                        [] OTHER -> search_qa(db, search_params)))
    ELSE formatted_all(db_error(search_all(db, search_params)))

call_tool_query_database(db, args) ==
    IF ~get_str(args, "query").some
    THEN DbOut(Err(invalid_params("Missing 'query' parameter")), <<>>, db.chapters)
    ELSE query_database_with(db, unwrap_or(get_str(args, "collection"), "all"),
                             parse_natural_language_query(get_str(args, "query").val))

\* Content::from_raw(result.unwrap()): a lookup that found nothing panics
unwrap_content(out) ==
    IF ~out.res.ok THEN out
    ELSE IF ~out.res.val.some THEN DbOut(Panicked, out.ops, out.chapters)
    ELSE DbOut(ToolOk([fmt |-> "text", about |-> "chapter", count |-> 1,
                       items |-> <<out.res.val.val>>]), out.ops, out.chapters)

call_tool_get_chapter_content(db, args) ==
    IF ~get_str(args, "chapter_id").some
    THEN DbOut(Err(invalid_params("Missing 'chapter_id' parameter")), <<>>, db.chapters)
    ELSE unwrap_content(db_error(get_chapter_content(db, get_str(args, "chapter_id").val)))

\* if let Some(character) = result { formatted } else { "No character found with ID: ..." }
details_or_none(out, character_id) ==
    IF ~out.res.ok THEN out
    ELSE IF out.res.val.some
    THEN DbOut(ToolOk(format_character_details(out.res.val.val)), out.ops, out.chapters)
    ELSE DbOut(ToolOk([fmt |-> "not_found", about |-> "character", count |-> 0,
                       items |-> <<character_id>>]), out.ops, out.chapters)

call_tool_get_character_details(db, args) ==
    IF ~get_str(args, "character_id").some
    THEN DbOut(Err(invalid_params("Missing 'character_id' parameter")), <<>>, db.chapters)
    ELSE details_or_none(
             db_error(get_character_details(db, get_str(args, "character_id").val)),
             get_str(args, "character_id").val)

formatted_regex(name, out) ==
    IF ~out.res.ok THEN out
    ELSE DbOut(ToolOk(CASE name = "query_qa_regex" -> mpc_format_qa(out.res.val)
                        [] name = "query_chapter_regex" -> mpc_format_chapters(out.res.val)
                        [] OTHER -> mpc_format_characters(out.res.val)),
               out.ops, out.chapters)

\* the three regex tools differ in the search and the formatter only
call_tool_regex(db, args, name) ==
    IF ~get_str(args, "regex_pattern").some
    THEN DbOut(Err(invalid_params("Missing 'regex_pattern' parameter")), <<>>, db.chapters)
    ELSE formatted_regex(
             name,
             db_error(CASE name = "query_qa_regex" ->
                               search_qa_by_regex(db, get_str(args, "regex_pattern").val)
                        [] name = "query_chapter_regex" ->
                               search_chapters_by_regex(db, get_str(args, "regex_pattern").val)
                        [] OTHER ->
                               search_characters_by_regex(db, get_str(args, "regex_pattern").val)))

\* JsonObject::default()
NoArguments ==
    [query |-> None, collection |-> None, chapter_id |-> None, character_id |-> None,
     regex_pattern |-> None]

\* MpcHandler::call_tool: request.arguments.unwrap_or_default(), then the
\* match on the tool name
call_tool_match(db, tool_name, args) ==
    CASE tool_name = "query_database" -> call_tool_query_database(db, args)
      [] tool_name = "get_chapter_content" -> call_tool_get_chapter_content(db, args)
      [] tool_name = "get_character_details" -> call_tool_get_character_details(db, args)
      [] tool_name \in {"query_qa_regex", "query_chapter_regex", "query_character_regex"} ->
             call_tool_regex(db, args, tool_name)
      [] OTHER -> DbOut(Err(invalid_params("Unknown method")), <<>>, db.chapters)

call_tool(db, request) ==
    call_tool_match(db, request.name, unwrap_or(request.arguments, NoArguments))

----------------------------------------------------------------------------
(* The requests the model draws *)

Txt_q_dragon == <<"d","r","a","g","o","n">>
Txt_q_chapters == <<"c","h","a","p","t","e","r","s"," ","a","b","o","u","t"," ","t","h","e"," ","d","r","a","g","o","n"," ","l","i","m","i","t",":","2">>
Txt_q_character == <<"c","h","a","r","a","c","t","e","r"," ","n","a","m","e","d"," ","B","o","b">>
Txt_q_qa == <<"q","a"," ","t","a","g","s",":"," ","m","a","g","i","c">>
Txt_bad == <<"b","a","d">>
Txt_wrong_token == <<"w","r","o","n","g","_","t","o","k","e","n">>
Txt_zzz == <<"z","z","z">>
Txt_r_magic == <<"M","a","G","i","c">>
Txt_r_war == <<"^","W","A","R","$">>

QueryTexts == {<<>>, Txt_q_dragon, Txt_q_chapters, Txt_q_character, Txt_q_qa, Txt_zzz}

\* a well-formed identifier that no chapter and no character has
MissingChapterId == OidHex(2, 15)
MissingCharacterId == OidHex(3, 15)

\* JSON values of a field: absent, of the wrong type, or one of the strings
JsonField(strings) == {None, Some(JNum(7))} \cup {Some(JStr(t)) : t \in strings}

NoOptions ==
    [chapter_id |-> None, character_id |-> None, regex_pattern |-> None,
     summary |-> None, auth_token |-> None]

\* the jsonrpc and id members of a body
Envelopes == {"2.0", "1.0"} \X {None, Some(JNum(1))}

JsonBody(env, method, query, options) ==
    [kind |-> "json", jsonrpc |-> env[1], id |-> env[2], method |-> method,
     query |-> query, options |-> options]

\* a body that is no JSON-RPC request: not JSON, over the size limit, not UTF-8
RawBody(kind) ==
    [kind |-> kind, jsonrpc |-> "", id |-> None, method |-> "", query |-> None,
     options |-> NoOptions]

\* methods other than query carry an empty query string or none at all
OtherQuery == {None, Some(JStr(<<>>))}

HttpBodies ==
    {RawBody(k) : k \in {"garbage", "too_large", "invalid_utf8"}}
    \cup {JsonBody(e, "query", q, NoOptions) : e \in Envelopes, q \in JsonField(QueryTexts)}
    \cup {JsonBody(e, "get_chapter_content", q, [NoOptions EXCEPT !.chapter_id = v]) :
            e \in Envelopes, q \in OtherQuery,
            v \in JsonField({OidHex(2, 1), Txt_q_dragon, MissingChapterId, Txt_bad})}
    \cup {JsonBody(e, "get_character_details", q, [NoOptions EXCEPT !.character_id = v]) :
            e \in Envelopes, q \in OtherQuery,
            v \in JsonField({OidHex(3, 1), MissingCharacterId})}
    \cup {JsonBody(e, m, q, [NoOptions EXCEPT !.regex_pattern = v]) :
            e \in Envelopes, q \in OtherQuery,
            m \in {"query_qa_regex", "query_chapter_regex", "query_character_regex"},
            v \in JsonField({Txt_q_dragon, Txt_zzz, Txt_r_magic, Txt_r_war})}
    \cup {JsonBody(e, "update_chapter_summary", q,
                   [NoOptions EXCEPT !.chapter_id = c, !.summary = s, !.auth_token = a]) :
            e \in Envelopes, q \in OtherQuery,
            c \in JsonField({OidHex(2, 1), MissingChapterId, Txt_bad}),
            s \in JsonField({Txt_new}),
            a \in {None, Some(JStr(Txt_trusted_llm_token)), Some(JStr(Txt_wrong_token))}}
    \cup {JsonBody(e, m, q, NoOptions) :
            e \in Envelopes, q \in OtherQuery,
            m \in {"mcp.capabilities", "mcp.prompts", "initialize",
                   "notifications/initialized", "drop_database"}}

ToolNames ==
    {"query_database", "get_chapter_content", "get_character_details", "query_qa_regex",
     "query_chapter_regex", "query_character_regex", "update_chapter_summary",
     "drop_database"}

CallToolRequestParam(name, arguments) == [name |-> name, arguments |-> arguments]

ToolCalls ==
    {CallToolRequestParam(n, None) : n \in ToolNames}
    \cup {CallToolRequestParam(n, Some(NoArguments)) : n \in {"update_chapter_summary", "drop_database"}}
    \cup {CallToolRequestParam("query_database",
                               Some([NoArguments EXCEPT !.query = q, !.collection = c])) :
            q \in JsonField({<<>>, Txt_q_dragon, Txt_q_chapters, Txt_zzz}),
            c \in {None, Some(JNum(7))} \cup {Some(JStr(x)) : x \in Collections}}
    \cup {CallToolRequestParam("get_chapter_content",
                               Some([NoArguments EXCEPT !.chapter_id = v])) :
            v \in JsonField({OidHex(2, 1), OidHex(2, 2), MissingChapterId, Txt_bad})}
    \cup {CallToolRequestParam("get_character_details",
                               Some([NoArguments EXCEPT !.character_id = v])) :
            v \in JsonField({OidHex(3, 1), MissingCharacterId})}
    \cup {CallToolRequestParam(n, Some([NoArguments EXCEPT !.regex_pattern = v])) :
            n \in {"query_qa_regex", "query_chapter_regex", "query_character_regex"},
            v \in JsonField({Txt_q_dragon, Txt_zzz})}

\* models::domain::SearchParams as a caller of the DatabaseService may build it
SearchFiltersDrawn ==
    {None,
     Some([novel_id |-> None, character_name |-> None, tags |-> None]),
     Some([novel_id |-> Some(OidHex(1, 1)), character_name |-> None, tags |-> None]),
     Some([novel_id |-> None, character_name |-> Some(<<"B", "o", "b">>), tags |-> None]),
     Some([novel_id |-> Some(Txt_bad), character_name |-> None, tags |-> Some(<<Txt_magic>>)])}

SearchParamsDrawn ==
    {[collection |-> "novels", query_type |-> "search", keywords |-> k, filters |-> f,
      limit |-> l] :
        k \in {<<>>, <<Txt_dragon>>, <<Txt_magic, Txt_zzz>>},
        f \in SearchFiltersDrawn,
        l \in {None} \cup {Some(n) : n \in 0..MaxLimit}}

\* direct calls on the DatabaseService trait
DbCalls ==
    {[op |-> "search", coll |-> c, params |-> p] : c \in Collections, p \in SearchParamsDrawn}
    \cup {[op |-> "update_chapter_summary", chapter_id |-> i, new_summary |-> Txt_new] :
            i \in {OidHex(2, 1), MissingChapterId, Txt_bad}}
    \cup {[op |-> "search_all", params |-> p] :
            p \in {q \in SearchParamsDrawn : q.limit \in {None, Some(1)}}}
    \cup {[op |-> "regex", coll |-> c, regex_pattern |-> r] :
            c \in {"qa", "chapters", "characters"}, r \in {Txt_q_dragon, Txt_old, Txt_zzz}}
    \cup {[op |-> "get_chapter_content", chapter_id |-> i] :
            i \in {OidHex(2, 1), OidHex(2, 2), MissingChapterId, Txt_bad}}
    \cup {[op |-> "get_character_details", character_id |-> i] :
            i \in {OidHex(3, 1), MissingCharacterId, Txt_bad}}

\* the texts handed to QueryParser::parse_natural_language_query
Txt_p_example == <<"F","i","n","d"," ","c","h","a","p","t","e","r","s"," ","a","b","o","u","t"," ","t","h","e"," ","d","r","a","g","o","n"," ","l","i","m","i","t",":","2">>
Txt_p_answer_novel == <<"a","n","s","w","e","r"," ","a","b","o","u","t"," ","t","h","e"," ","n","o","v","e","l">>
Txt_p_upper == <<"C","H","A","R","A","C","T","E","R"," ","i","n"," ","C","H","A","P","T","E","R"," ","o","n","e">>
Txt_p_none == <<"d","r","a","g","o","n"," ","m","a","g","i","c">>
Txt_p_punct == <<"T","h","e"," ","d","r","a","g","o","n",","," ","t","h","e"," ","(","w","a","r",")"," ","o","f"," ","a","n"," ","o","x"," ","-","-"," ","d","r","a","g","o","n">>
Txt_p_question == <<"a","n","y"," ","Q","u","e","s","t","i","o","n"," ","o","f"," ","q","a">>
Txt_p_limit_eq == <<"l","i","s","t"," ","a","l","l"," ","a","n","s","w","e","r","s"," ","l","i","m","i","t"," ","="," ","1","0">>
Txt_p_plain == <<"D","r","a","g","o","n"," ","W","A","R"," ","d","r","a","g","o","n">>
Txt_p_filters == <<"n","o","v","e","l"," ","i","d",":"," ","a","b","c","1","2","3"," ","t","a","g","s",":"," ","m","a","g","i","c",","," ","w","a","r">>
Txt_p_overflow == <<"w","a","r"," ","l","i","m","i","t",":","9","9","9","9","9","9","9","9","9","9","9">>

Txt_p_zero == <<"w","a","r"," ","l","i","m","i","t",":","0">>

ParseTexts ==
    {<<>>, Txt_p_example, Txt_p_zero,
     Txt_p_answer_novel,
     Txt_p_upper,
     Txt_p_none,
     Txt_p_punct,
     Txt_p_question,
     Txt_p_limit_eq,
     Txt_p_plain,
     Txt_p_filters,
     Txt_p_overflow}

\* the collections whose access fails during one request: none, one, or all
DownSets == {{}} \cup {{c} : c \in Collections} \cup {Collections}

----------------------------------------------------------------------------
(* The state machine: one request at a time is received, handled against   *)
(* the store, and its reply delivered.                                     *)

NoRequest == [via |-> "none"]
NoReply == [via |-> "none"]

\* the store as a call finds it; order is the order in which concurrent
\* sub-searches of one call reach the store
Store(down) == [chapters |-> chapters, down |-> down, order |-> AllCollections]

\* the orders in which the four futures of tokio::join! can reach the store
CompletionOrders == {o \in [1..4 -> Collections] : Range(o) = Collections}

Scheduled(db, order) == [db EXCEPT !.order = order]

\* only search_all runs store accesses concurrently: the orders a request
\* can meet
CompletionOrdersOf(request) ==
    IF \/ request.via = "db" /\ request.call.op = "search_all"
       \/ /\ request.via = "tool" /\ request.call.name = "query_database"
          /\ request.call.arguments.some
          /\ request.call.arguments.val.collection \notin {Some(JStr(c)) : c \in Collections}
    THEN CompletionOrders
    ELSE {AllCollections}

\* a direct call on the DatabaseService
db_call(db, call) ==
    CASE call.op = "update_chapter_summary" ->
             update_chapter_summary(db, call.chapter_id, call.new_summary)
      [] call.op = "search_all" -> search_all(db, call.params)
      [] call.op = "get_chapter_content" -> get_chapter_content(db, call.chapter_id)
      [] call.op = "get_character_details" -> get_character_details(db, call.character_id)
      [] call.op = "regex" /\ call.coll = "qa" -> search_qa_by_regex(db, call.regex_pattern)
      [] call.op = "regex" /\ call.coll = "chapters" ->
             search_chapters_by_regex(db, call.regex_pattern)
      [] call.op = "regex" /\ call.coll = "characters" ->
             search_characters_by_regex(db, call.regex_pattern)
      [] call.op = "search" /\ call.coll = "novels" -> search_novels(db, call.params)
      [] call.op = "search" /\ call.coll = "chapters" -> search_chapters(db, call.params)
      [] call.op = "search" /\ call.coll = "characters" -> search_characters(db, call.params)
      [] OTHER -> search_qa(db, call.params)

Init ==
    /\ writeAccess \in BOOLEAN
    /\ chapters = InitChapters
    /\ pc = "idle"
    /\ req = NoRequest
    /\ resp = NoReply
    /\ storeOps = <<>>
    /\ storeDown = {}
    /\ pre = InitChapters
    /\ tasks = <<>>

\* a POST to the JSON-RPC endpoint arrives
ReceiveHttp ==
    /\ pc = "idle"
    /\ \E body \in HttpBodies : req' = [via |-> "http", body |-> body]
    /\ pc' = "received"
    /\ UNCHANGED <<tasks, writeAccess, chapters, resp, storeOps, storeDown, pre>>

\* a tools/call request arrives at the MpcHandler service
ReceiveTool ==
    /\ pc = "idle"
    /\ \E call \in ToolCalls : req' = [via |-> "tool", call |-> call]
    /\ pc' = "received"
    /\ UNCHANGED <<tasks, writeAccess, chapters, resp, storeOps, storeDown, pre>>

\* a component calls the DatabaseService directly
ReceiveDb ==
    /\ pc = "idle"
    /\ \E call \in DbCalls : req' = [via |-> "db", call |-> call]
    /\ pc' = "received"
    /\ UNCHANGED <<tasks, writeAccess, chapters, resp, storeOps, storeDown, pre>>

\* rmcp_http_handler runs on the body
HandleHttp ==
    /\ pc = "received" /\ req.via = "http"
    /\ \E down \in DownSets :
          \E out \in {rmcp_http_handler(Store(down), writeAccess, req.body)} :
             /\ resp' = [via |-> "http", reply |-> out.reply]
             /\ storeOps' = out.ops
             /\ chapters' = out.chapters
             /\ storeDown' = down
    /\ pre' = chapters
    /\ pc' = "responded"
    /\ UNCHANGED <<tasks, writeAccess, req>>

\* MpcHandler::call_tool runs on the request
HandleTool ==
    /\ pc = "received" /\ req.via = "tool"
    /\ \E down \in DownSets :
       \E order \in CompletionOrdersOf(req) :
          \E out \in {call_tool(Scheduled(Store(down), order), req.call)} :
             /\ resp' = [via |-> "tool", res |-> out.res]
             /\ storeOps' = out.ops
             /\ chapters' = out.chapters
             /\ storeDown' = down
    /\ pre' = chapters
    /\ pc' = "responded"
    /\ UNCHANGED <<tasks, writeAccess, req>>

\* the DatabaseService method runs
HandleDb ==
    /\ pc = "received" /\ req.via = "db"
    /\ \E down \in DownSets :
       \E order \in CompletionOrdersOf(req) :
          \E out \in {db_call(Scheduled(Store(down), order), req.call)} :
             /\ resp' = [via |-> "db", res |-> out.res]
             /\ storeOps' = out.ops
             /\ chapters' = out.chapters
             /\ storeDown' = down
    /\ pre' = chapters
    /\ pc' = "responded"
    /\ UNCHANGED <<tasks, writeAccess, req>>

\* a component calls QueryParser::parse_natural_language_query on a text
ReceiveParse ==
    /\ pc = "idle"
    /\ \E text \in ParseTexts : req' = [via |-> "parse", text |-> text]
    /\ pc' = "received"
    /\ UNCHANGED <<tasks, writeAccess, chapters, resp, storeOps, storeDown, pre>>

\* the parser returns the SearchParams; it touches no store
HandleParse ==
    /\ pc = "received" /\ req.via = "parse"
    /\ resp' = [via |-> "parse", res |-> parse_natural_language_query(req.text)]
    /\ storeOps' = <<>>
    /\ storeDown' = {}
    /\ pre' = chapters
    /\ pc' = "responded"
    /\ UNCHANGED <<tasks, writeAccess, chapters, req>>

\* the reply leaves; the server is ready for the next request
Deliver ==
    /\ pc = "responded"
    /\ pc' = "idle"
    /\ req' = NoRequest
    /\ resp' = NoReply
    /\ storeOps' = <<>>
    /\ storeDown' = {}
    /\ pre' = chapters
    /\ UNCHANGED <<tasks, writeAccess, chapters>>

Next ==
    \/ ReceiveHttp
    \/ ReceiveTool
    \/ ReceiveDb
    \/ HandleHttp
    \/ HandleTool
    \/ HandleDb
    \/ ReceiveParse
    \/ HandleParse
    \/ Deliver

Spec == Init /\ [][Next]_vars

----------------------------------------------------------------------------
(* Concurrent calls on the DatabaseService.  The service is shared (Arc)   *)
(* and its methods are async: calls of different requests interleave at    *)
(* their store accesses.  update_chapter_summary has one store access, the *)
(* update_one; the cursor of a search hands over one document at a time.   *)

UpdateTask(chapter_id, summary) ==
    [kind |-> "update", chapter_id |-> chapter_id, summary |-> summary, at |-> "ready",
     res |-> None, existed |-> FALSE, seen |-> <<>>]

SearchTask ==
    [kind |-> "search", chapter_id |-> <<>>, summary |-> <<>>, at |-> "ready",
     res |-> None, existed |-> FALSE, seen |-> <<>>]

\* two updates of the same chapter, an update of a chapter that does not
\* exist, and a search
ConcurrentTasks ==
    <<UpdateTask(OidHex(2, 1), Txt_new), UpdateTask(OidHex(2, 1), Txt_zzz),
      UpdateTask(MissingChapterId, Txt_new), SearchTask>>

\* the search the concurrent reader runs: every chapter, at most NumChapters
ReaderParams ==
    [collection |-> "chapters", query_type |-> "search", keywords |-> <<>>,
     filters |-> None, limit |-> Some(NumChapters)]

ConcInit ==
    /\ writeAccess = TRUE
    /\ chapters = InitChapters
    /\ pc = "idle"
    /\ req = NoRequest
    /\ resp = NoReply
    /\ storeOps = <<>>
    /\ storeDown = {}
    /\ pre = InitChapters
    /\ tasks = ConcurrentTasks

\* update_chapter_summary of task t runs: its update_one reaches the store
RunUpdate(t) ==
    /\ tasks[t].kind = "update" /\ tasks[t].at = "ready"
    /\ \E out \in {update_chapter_summary(Store({}), tasks[t].chapter_id, tasks[t].summary)} :
          /\ chapters' = out.chapters
          /\ tasks' = [tasks EXCEPT ![t].at = "done",
                                    ![t].res = Some(out.res),
                                    ![t].existed =
                                        \E i \in DOMAIN chapters :
                                            chapters[i].id = Some(tasks[t].chapter_id)]
    /\ UNCHANGED <<writeAccess, pc, req, resp, storeOps, storeDown, pre>>

\* cursor.try_next() of the search of task t: the next document of the
\* collection, as the store holds it now
CursorNext(t) ==
    /\ tasks[t].kind = "search" /\ tasks[t].at = "ready"
    /\ Len(tasks[t].seen) < Len(chapters)
    /\ tasks' = [tasks EXCEPT ![t].seen = Append(@, chapters[Len(@) + 1])]
    /\ UNCHANGED <<writeAccess, chapters, pc, req, resp, storeOps, storeDown, pre>>

\* the cursor is exhausted: the search returns the page of what it read
CursorEnd(t) ==
    /\ tasks[t].kind = "search" /\ tasks[t].at = "ready"
    /\ Len(tasks[t].seen) = Len(chapters)
    /\ tasks' = [tasks EXCEPT
                    ![t].at = "done",
                    ![t].res = Some(search_chapters([chapters |-> tasks[t].seen, down |-> {},
                                                     order |-> AllCollections],
                                                    ReaderParams).res)]
    /\ UNCHANGED <<writeAccess, chapters, pc, req, resp, storeOps, storeDown, pre>>

ConcNext ==
    \/ \E t \in DOMAIN tasks : RunUpdate(t)
    \/ \E t \in DOMAIN tasks : CursorNext(t)
    \/ \E t \in DOMAIN tasks : CursorEnd(t)

ConcSpec == ConcInit /\ [][ConcNext]_vars

----------------------------------------------------------------------------
(* Properties.  A reply is looked at in the state where it has been        *)
(* produced and not yet delivered (pc = "responded").                      *)

\* an HTTP request has been answered
HttpResponded == pc = "responded" /\ req.via = "http"

\* ... and its body was a JSON-RPC request that serde accepted
HttpParsed == HttpResponded /\ from_str(req.body).ok

\* ... of version 2.0, with an id
HttpCall == HttpParsed /\ req.body.jsonrpc = "2.0" /\ req.body.id.some

\* the reply carries an error envelope with this code
ErrorCodeIs(code) ==
    /\ resp.reply.envelope.some
    /\ resp.reply.envelope.val.error.some
    /\ resp.reply.envelope.val.error.val.code = code

\* an access to the store failed while the request was handled
StoreAccessFailed == \E i \in DOMAIN storeOps : storeOps[i] \in storeDown

\* the option is a JSON string
HasString(key) == get_str(req.body.options, key).some

\* C1: a request without an id (a notification), to whatever method, gets a
\* reply without a body: no envelope, and so no error envelope either.
C1_NotificationHasNoBody ==
    (HttpResponded /\ req.body.kind = "json" /\ ~req.body.id.some)
        => ~resp.reply.envelope.some

\* a notification to the query method is answered with a result envelope
C1_NotificationAnswered ==
    /\ HttpParsed /\ ~req.body.id.some /\ req.body.method = "query"
    /\ resp.reply.envelope.some
    /\ resp.reply.envelope.val.result.some

\* C2: a request whose auth_token is missing or not in the allowlist leaves
\* every chapter as it was.
C2_UntrustedLeavesChapters ==
    (HttpResponded /\ ~validate_auth_token(req.body.options)) => chapters = pre

\* an update without a token has rewritten a chapter
C2_UntrustedUpdateApplied ==
    /\ HttpCall /\ req.body.method = "update_chapter_summary"
    /\ req.body.options.auth_token = None
    /\ chapters # pre

C4_UnauthorizedCode ==
    (/\ HttpCall /\ req.body.method = "update_chapter_summary"
     /\ HasString("chapter_id") /\ HasString("summary")
     /\ ~validate_auth_token(req.body.options))
        => ErrorCodeIs(UnauthorizedCode)

\* an update with a wrong token is answered with a result
C4_WrongTokenAccepted ==
    /\ HttpCall /\ req.body.method = "update_chapter_summary"
    /\ req.body.options.auth_token = Some(JStr(Txt_wrong_token))
    /\ resp.reply.envelope.some
    /\ resp.reply.envelope.val.result.some

\* C5: in a build without write access, update_chapter_summary is answered
\* like an unknown method: with the error code -32601.
C5_DisabledIsMethodNotFound ==
    (/\ HttpCall /\ ~writeAccess /\ req.body.method = "update_chapter_summary"
     /\ HasString("chapter_id") /\ HasString("summary"))
        => ErrorCodeIs(MethodNotFoundCode)

\* without write access the update is answered with code 403
C5_DisabledAnswers403 ==
    /\ HttpCall /\ ~writeAccess /\ req.body.method = "update_chapter_summary"
    /\ ErrorCodeIs(PermissionDeniedCode)

\* C6: a store access that fails while a request with an id is handled is
\* reported as an error envelope with code -32603.
C6_StoreFailureIsInternalError ==
    (HttpCall /\ StoreAccessFailed) => ErrorCodeIs(InternalErrorCode)

\* a failed store access of the query method is reported with code -32602
C6_StoreFailureAsInvalidParams ==
    /\ HttpCall /\ StoreAccessFailed /\ req.body.method = "query"
    /\ ErrorCodeIs(InvalidParamsCode)

\* the required parameter of the method is missing or is no string
RequiredParamMissing ==
    \/ req.body.method = "query" /\ (~req.body.query.some \/ ~as_str(req.body.query.val).some)
    \/ req.body.method = "get_chapter_content" /\ ~HasString("chapter_id")
    \/ req.body.method = "get_character_details" /\ ~HasString("character_id")
    \/ /\ req.body.method \in {"query_qa_regex", "query_chapter_regex", "query_character_regex"}
       /\ ~HasString("regex_pattern")
    \/ /\ req.body.method = "update_chapter_summary"
       /\ (~HasString("chapter_id") \/ ~HasString("summary"))

\* C7: a request that lacks a required parameter of its method, or gives it
\* with the wrong type, is answered with code -32602 and touches no store.
C7_MissingParamIsInvalidParams ==
    (/\ HttpResponded /\ req.body.kind = "json" /\ req.body.jsonrpc = "2.0"
     /\ req.body.id.some /\ RequiredParamMissing)
        => (ErrorCodeIs(MissingParamCode) /\ storeOps = <<>>)

\* a query request whose query is a number is answered as a parse error
C7_IllTypedQueryIsParseError ==
    /\ HttpResponded /\ req.body.kind = "json" /\ req.body.jsonrpc = "2.0"
    /\ req.body.id.some /\ req.body.method = "query"
    /\ req.body.query = Some(JNum(7))
    /\ ErrorCodeIs(ParseErrorCode)

\* the names MpcHandler::call_tool dispatches on
CallToolNames ==
    {"query_database", "get_chapter_content", "get_character_details", "query_qa_regex",
     "query_chapter_regex", "query_character_regex"}

\* the tool call was refused with this code
ToolErrorCodeIs(code) ==
    /\ ~IsPanic(resp.res) /\ ~resp.res.ok /\ resp.res.err.code = code

\* C8: a request rejected at envelope level gets the code of its class and
\* touches no store: -32700 for a body that does not parse, -32600 for a
\* version other than 2.0 (whatever the method), -32601 for a name outside
\* the dispatcher's table.
C8_EnvelopeRejections ==
    /\ (HttpResponded /\ req.body.kind = "garbage")
          => (ErrorCodeIs(ParseErrorCode) /\ storeOps = <<>>)
    /\ (HttpParsed /\ req.body.jsonrpc # "2.0")
          => (ErrorCodeIs(InvalidRequestCode) /\ storeOps = <<>>)
    /\ (HttpCall /\ req.body.method \notin Range(CapabilityMethods)
                                          \cup {"initialize", "notifications/initialized"})
          => (ErrorCodeIs(MethodNotFoundCode) /\ storeOps = <<>>)
    /\ (pc = "responded" /\ req.via = "tool" /\ req.call.name \notin CallToolNames)
          => (ToolErrorCodeIs(MethodNotFoundCode) /\ storeOps = <<>>)

\* a tool name outside call_tool's table is refused with code -32602
C8_UnknownToolAsInvalidParams ==
    /\ pc = "responded" /\ req.via = "tool" /\ req.call.name = "drop_database"
    /\ ToolErrorCodeIs(InvalidParamsCode)

\* a search of the DatabaseService has returned its page
DbSearched == pc = "responded" /\ req.via = "db" /\ req.call.op = "search" /\ resp.res.ok

\* the effective limit L of the search
EffectiveLimit ==
    unwrap_or(req.call.params.limit,
              CASE req.call.coll = "novels" -> DefaultLimitNovels
                [] req.call.coll = "chapters" -> DefaultLimitChapters
                [] req.call.coll = "characters" -> DefaultLimitCharacters
                [] OTHER -> DefaultLimitQA)

\* the number M of records of the collection that match the search
MatchCount ==
    Cardinality({i \in DOMAIN CollectionDocs(Store({}), req.call.coll) :
                    filter_matches(req.call.coll, CollectionDocs(Store({}), req.call.coll)[i],
                                   search_filter(req.call.coll, req.call.params))})

Min(a, b) == IF a <= b THEN a ELSE b

\* C9: a search with effective limit L over M matching records returns
\* min(L, M) records, and has_more is true exactly when M >= L + 1.
C9_PageOfSearch ==
    DbSearched =>
        /\ Len(resp.res.val.data) = Min(EffectiveLimit, MatchCount)
        /\ resp.res.val.metadata.has_more = (MatchCount >= EffectiveLimit + 1)

\* a chapters search with limit 3 and four matches: three records, has_more
C9_ThreeOfFour ==
    /\ DbSearched /\ req.call.coll = "chapters" /\ req.call.params.limit = Some(3)
    /\ MatchCount = 4
    /\ Len(resp.res.val.data) = 3
    /\ resp.res.val.metadata.has_more

\* update_chapter_summary of the DatabaseService has returned
DbUpdated == pc = "responded" /\ req.via = "db" /\ req.call.op = "update_chapter_summary"

\* no chapter of the store has the identifier of the call
MatchesNoChapter ==
    \A i \in DOMAIN pre :
        ~parse_str(req.call.chapter_id).ok
            \/ pre[i].id # Some(parse_str(req.call.chapter_id).val)

\* C10: an update against an identifier that matches no chapter fails, never
\* succeeds, and leaves the chapters as they were; when the identifier is
\* well-formed and the store answers, the failure is "Chapter not found".
C10_UpdateOfMissingChapterFails ==
    (DbUpdated /\ MatchesNoChapter) =>
        /\ ~resp.res.ok
        /\ chapters = pre
        /\ (parse_str(req.call.chapter_id).ok /\ storeDown = {})
              => resp.res.err = "Chapter not found"

\* the update of a well-formed identifier no chapter has: "Chapter not found"
C10_NotFoundReported ==
    /\ DbUpdated /\ req.call.chapter_id = MissingChapterId /\ storeDown = {}
    /\ storeOps = <<"chapters">>
    /\ resp.res = Err("Chapter not found")
    /\ chapters = pre


\* the update a request asks for, if it asks for one: the identifier and
\* the new summary
UpdateAsked ==
    IF req.via = "db"
    THEN (IF req.call.op = "update_chapter_summary"
          THEN Some([chapter_id |-> req.call.chapter_id, summary |-> req.call.new_summary])
          ELSE None)
    ELSE IF /\ req.via = "http" /\ req.body.method = "update_chapter_summary"
            /\ HasString("chapter_id") /\ HasString("summary")
         THEN Some([chapter_id |-> get_str(req.body.options, "chapter_id").val,
                    summary |-> get_str(req.body.options, "summary").val])
    ELSE None

\* the request was answered with a success
Succeeded ==
    CASE req.via = "http" -> resp.reply.envelope.some /\ resp.reply.envelope.val.result.some
      [] req.via = "tool" -> ~IsPanic(resp.res) /\ resp.res.ok
      [] OTHER -> resp.res.ok

\* chapters is pre with the summary of the one chapter of this identifier
\* replaced, everything else as it was
OnlySummaryReplaced(asked) ==
    \E i \in DOMAIN pre :
        /\ parse_str(asked.chapter_id).ok
        /\ pre[i].id = Some(parse_str(asked.chapter_id).val)
        /\ chapters = [pre EXCEPT ![i].summary = asked.summary]

\* C11: whatever requests came before, a request changes the chapters only
\* when it is an update_chapter_summary that succeeds, and then only the
\* summary of the chapter it names: every other chapter and every other
\* field (title, number, key_points, content, novel_id, id) is as before;
\* searches, regex searches and fetches leave the chapters as they were.
C11_OnlySummaryOfNamedChapter ==
    (pc = "responded" /\ chapters # pre) =>
        /\ UpdateAsked.some
        /\ Succeeded
        /\ OnlySummaryReplaced(UpdateAsked.val)

\* a successful update has rewritten the summary of the chapter it names,
\* in a store where the other chapters kept theirs
C11_SummaryReplaced ==
    /\ DbUpdated /\ resp.res.ok
    /\ chapters # pre
    /\ \E i \in DOMAIN pre :
          /\ pre[i].summary = Txt_old /\ chapters[i].summary = Txt_new
          /\ \E j \in DOMAIN pre : j # i /\ chapters[j] = pre[j]

\* search_all of the DatabaseService has returned
DbSearchedAll == pc = "responded" /\ req.via = "db" /\ req.call.op = "search_all"

\* the four sub-searches of the call, run one by one on the same store
SubSearches ==
    [novels |-> search_novels(Store(storeDown), req.call.params).res,
     chapters |-> search_chapters(Store(storeDown), req.call.params).res,
     characters |-> search_characters(Store(storeDown), req.call.params).res,
     qa |-> search_qa(Store(storeDown), req.call.params).res]

AllOrNothing(sub) ==
    /\ Len(storeOps) = 4 /\ Range(storeOps) = Collections
    /\ resp.res.ok = (\A c \in Collections : sub[c].ok)
    /\ resp.res.ok =>
          /\ DOMAIN resp.res.val = Collections
          /\ \A c \in Collections : resp.res.val[c] = sub[c].val.data
    /\ ~resp.res.ok => resp.res = Err(StoreError)

\* C12: search_all issues all four searches, in whatever order they reach
\* the store; it succeeds exactly when all four succeed, and then returns
\* one structure with exactly the keys novels, chapters, characters and qa,
\* each holding the records of its search; when a search fails the call
\* returns that failure and nothing else.
C12_SearchAllIsAllOrNothing ==
    DbSearchedAll => AllOrNothing(SubSearches)

\* the qa search reached the store first and failed, the other three
\* succeeded: the combined search fails
C12_OneFailureFailsAll ==
    /\ DbSearchedAll
    /\ storeDown = {"qa"} /\ storeOps[1] = "qa"
    /\ SubSearches["novels"].ok
    /\ ~resp.res.ok

\* a DatabaseService call has returned Ok
DbReturnedOk == pc = "responded" /\ req.via = "db" /\ resp.res.ok

\* the chapter records a returned result holds
ChapterRecords ==
    CASE req.call.op = "search" /\ req.call.coll = "chapters" -> resp.res.val.data
      [] req.call.op = "regex" /\ req.call.coll = "chapters" -> resp.res.val
      [] req.call.op = "search_all" -> resp.res.val.chapters
      [] OTHER -> <<>>

\* C13: no chapter record of a search result (keyword search of chapters,
\* regex search of chapters, chapters section of search_all) carries the
\* content field, whether or not the stored chapter has one.
C13_NoContentInSearchResults ==
    DbReturnedOk => \A i \in DOMAIN ChapterRecords : ~ChapterRecords[i].content.some

\* a regex search returns, without content, a chapter stored with content
C13_StoredContentStripped ==
    /\ DbReturnedOk /\ req.call.op = "regex" /\ req.call.coll = "chapters"
    /\ \E i \in DOMAIN ChapterRecords : \E j \in DOMAIN chapters :
          /\ ChapterRecords[i].id = chapters[j].id
          /\ chapters[j].content.some
          /\ ~ChapterRecords[i].content.some

\* the stored chapters that have this identifier
ChaptersWithId(id) ==
    {j \in DOMAIN pre : parse_str(id).ok /\ pre[j].id = Some(parse_str(id).val)}

\* the long-form text of the chapter when it has one, else its summary (as
\* get_chapter_content of the DatabaseService renders it)
TextOrSummary(chapter) ==
    IF chapter.content.some THEN chapter.content.val
    ELSE Txt_summary_prefix \o chapter.summary

\* the HTTP reply is a result whose content is this text
RepliesText(text) ==
    /\ resp.reply.envelope.some
    /\ resp.reply.envelope.val.result.some
    /\ \E i \in DOMAIN resp.reply.envelope.val.result.val.content :
          /\ resp.reply.envelope.val.result.val.content[i].fmt = "text"
          /\ resp.reply.envelope.val.result.val.content[i].about = text

\* C14: the fetch of a chapter that exists returns its long-form text when
\* it has one and its summary when it has none, both through
\* DatabaseService::get_chapter_content and through the get_chapter_content
\* method of MCPDatabaseServer that the HTTP dispatcher calls.
C14_FetchReturnsTextOrSummary ==
    /\ (/\ pc = "responded" /\ req.via = "db" /\ req.call.op = "get_chapter_content"
        /\ storeDown = {})
          => \A j \in ChaptersWithId(req.call.chapter_id) :
                resp.res = Ok(Some(TextOrSummary(pre[j])))
    /\ (/\ HttpCall /\ req.body.method = "get_chapter_content" /\ HasString("chapter_id")
        /\ storeDown = {})
          => \A j \in ChaptersWithId(get_str(req.body.options, "chapter_id").val) :
                RepliesText(TextOrSummary(pre[j]))

\* the HTTP fetch of a stored chapter that has long-form text is answered
\* with the error -32602: the chapter is reported as not found
C14_StoredChapterNotFound ==
    /\ HttpCall /\ req.body.method = "get_chapter_content" /\ storeDown = {}
    /\ req.body.options.chapter_id = Some(JStr(OidHex(2, 1)))
    /\ \E j \in ChaptersWithId(OidHex(2, 1)) : pre[j].content.some
    /\ ErrorCodeIs(InvalidParamsCode)

\* the identifier of an HTTP lookup, and of a DatabaseService lookup
HttpLookupId ==
    IF req.body.method = "get_chapter_content"
    THEN get_str(req.body.options, "chapter_id")
    ELSE get_str(req.body.options, "character_id")

DbLookupId ==
    IF req.call.op = "get_chapter_content" THEN req.call.chapter_id ELSE req.call.character_id

\* the HTTP reply reports that no record has the identifier
RepliesNotFound ==
    /\ resp.reply.envelope.some
    /\ resp.reply.envelope.val.error.some
    /\ resp.reply.envelope.val.error.val.message.msg = "not found"

\* C15: a lookup by identifier (chapter text, character details) whose
\* identifier is malformed ends as not found, as it does for a well-formed
\* identifier that no record has: Ok(None) from the DatabaseService, the
\* not-found reply from the lookup methods the HTTP dispatcher calls.
C15_MalformedIdIsNotFound ==
    /\ (/\ pc = "responded" /\ req.via = "db"
        /\ req.call.op \in {"get_chapter_content", "get_character_details"}
        /\ ~parse_str(DbLookupId).ok)
          => resp.res = Ok(None)
    /\ (/\ HttpCall /\ req.body.method \in {"get_chapter_content", "get_character_details"}
        /\ HttpLookupId.some /\ ~parse_str(HttpLookupId.val).ok
        /\ storeDown = {})
          => RepliesNotFound

\* the HTTP lookup with the malformed identifier "dragon" is answered with
\* a chapter: the one whose title is dragon
C15_MalformedIdFindsChapter ==
    /\ HttpCall /\ req.body.method = "get_chapter_content" /\ storeDown = {}
    /\ req.body.options.chapter_id = Some(JStr(Txt_q_dragon))
    /\ ~parse_str(Txt_q_dragon).ok
    /\ resp.reply.envelope.some
    /\ resp.reply.envelope.val.result.some

\* C16: handling a request ends in a returned value, a result or an error,
\* and never in a panic, also for a chapter fetch whose identifier is
\* malformed or is the identifier of no chapter.
C16_NoPanic ==
    (pc = "responded" /\ req.via = "tool") => ~IsPanic(resp.res)

\* the get_chapter_content tool, called with a well-formed identifier that
\* no chapter has, panics although the store answered
C16_FetchOfMissingChapterPanics ==
    /\ pc = "responded" /\ req.via = "tool" /\ req.call.name = "get_chapter_content"
    /\ req.call.arguments.some
    /\ req.call.arguments.val.chapter_id = Some(JStr(MissingChapterId))
    /\ storeDown = {} /\ storeOps = <<"chapters">>
    /\ IsPanic(resp.res)

\* parse_natural_language_query has returned
Parsed == pc = "responded" /\ req.via = "parse"

\* the fixed table of the collection keywords, in its order
CollectionKeywordOrder ==
    <<<<Lit_novel, "novels">>,
      <<<<"c","h","a","p","t","e","r">>, "chapters">>,
      <<Lit_character, "characters">>,
      <<<<"q","a">>, "qa">>,
      <<<<"q","u","e","s","t","i","o","n">>, "qa">>,
      <<<<"a","n","s","w","e","r">>, "qa">>>>

\* the entries of the table whose keyword is a substring of the text,
\* letter case ignored
KeywordHits(text) ==
    {i \in DOMAIN CollectionKeywordOrder :
        contains(to_lowercase(text), CollectionKeywordOrder[i][1])}

\* position of the first occurrence of a keyword in the lowercased text
FirstOccurrence(text, lit) ==
    CHOOSE p \in 1..Len(text) :
        /\ StartsAt(to_lowercase(text), p, lit)
        /\ \A q \in 1..(p - 1) : ~StartsAt(to_lowercase(text), q, lit)

\* C17: the collection parse returns is the target of the first entry, in
\* the table order novel, chapter, character, qa, question, answer, whose
\* keyword the text contains (case-insensitively), and novels when the text
\* contains none.
C17_CollectionByTableOrder ==
    Parsed =>
        resp.res.collection =
            IF KeywordHits(req.text) = {} THEN "novels"
            ELSE CollectionKeywordOrder[
                     CHOOSE i \in KeywordHits(req.text) :
                        \A j \in KeywordHits(req.text) : i <= j][2]

\* a text in which answer occurs before novel is parsed as novels
C17_TableOrderBeatsTextOrder ==
    /\ Parsed /\ KeywordHits(req.text) = {1, 6}
    /\ FirstOccurrence(req.text, CollectionKeywordOrder[6][1])
          < FirstOccurrence(req.text, CollectionKeywordOrder[1][1])
    /\ resp.res.collection = "novels"

\* the tokens lowercased and stripped of leading and trailing
\* non-alphanumeric characters, without those that are stop words or
\* shorter than 3 characters; order and duplicates kept
RECURSIVE StrippedKeywords(_)
StrippedKeywords(words) ==
    IF words = <<>> THEN <<>>
    ELSE (IF \/ trim_matches_non_alnum(to_lowercase(words[1])) \in stop_words
             \/ Len(trim_matches_non_alnum(to_lowercase(words[1]))) < 3
          THEN <<>>
          ELSE <<trim_matches_non_alnum(to_lowercase(words[1]))>>)
         \o StrippedKeywords(Tail(words))

\* C18: the keywords of parse(text) are the whitespace-split tokens of the
\* text, lowercased and stripped of leading and trailing non-alphanumeric
\* characters, without stop words and tokens shorter than 3 characters, in
\* the original order with duplicates kept; so no keyword is a stop word,
\* is shorter than 3 characters, or begins or ends with a character that
\* is not alphanumeric.
C18_KeywordsStrippedAndFiltered ==
    Parsed =>
        /\ resp.res.keywords = StrippedKeywords(split_whitespace(req.text))
        /\ \A i \in DOMAIN resp.res.keywords :
              /\ resp.res.keywords[i] \notin stop_words
              /\ Len(resp.res.keywords[i]) >= 3
              /\ resp.res.keywords[i][1] \in AlnumSet
              /\ resp.res.keywords[i][Len(resp.res.keywords[i])] \in AlnumSet

\* a token followed by a comma is returned as a keyword with its comma
C18_KeywordKeepsPunctuation ==
    /\ Parsed /\ req.text = Txt_p_punct
    /\ \E i \in DOMAIN resp.res.keywords :
          /\ resp.res.keywords[i] = <<"d","r","a","g","o","n",",">>
          /\ resp.res.keywords[i][Len(resp.res.keywords[i])] \notin AlnumSet

\* C19: parse("Find chapters about the dragon limit:2") gives collection
\* "chapters", query type "search", limit Some(2), and the keywords
\* ["chapters", "dragon"]: the limit directive is not among the keywords.
C19_ExampleParse ==
    (Parsed /\ req.text = Txt_p_example) =>
        /\ resp.res.collection = "chapters"
        /\ resp.res.query_type = "search"
        /\ resp.res.limit = Some(2)
        /\ resp.res.keywords = << <<"c","h","a","p","t","e","r","s">>,
                                  <<"d","r","a","g","o","n">> >>

\* the example text is parsed and the directive token "limit:2" is
\* returned as its third keyword
C19_LimitDirectiveAmongKeywords ==
    /\ Parsed /\ req.text = Txt_p_example
    /\ resp.res.collection = "chapters"
    /\ resp.res.limit = Some(2)
    /\ Len(resp.res.keywords) = 3
    /\ resp.res.keywords[3] = <<"l","i","m","i","t",":","2">>

SearchMethods == {"query", "query_qa_regex", "query_chapter_regex", "query_character_regex"}

\* the rendered texts of the successful reply to a search
Rendered ==
    CASE pc = "responded" /\ resp.via = "http" ->
             IF /\ resp.reply.envelope.some
                /\ resp.reply.envelope.val.result.some
                /\ ~resp.reply.envelope.val.error.some
                /\ req.body.kind = "json"
                /\ req.body.method \in SearchMethods
             THEN resp.reply.envelope.val.result.val.content
             ELSE <<>>
      [] pc = "responded" /\ resp.via = "tool" ->
             IF resp.res.ok THEN resp.res.val.content ELSE <<>>
      [] OTHER -> <<>>

\* the rendering of a record sequence by a formatter of search results
SearchRendering(text) == text.fmt \in {"found", "no_results", "list", "summary", "raw"}

CollectionNames == {"novels", "chapters", "characters", "qa", "Q&A entries"}

\* C20: on every path that renders search results (structured query, regex
\* searches, combined search) the rendering of an empty record sequence is
\* the "no results" message that names the collection, never a results
\* header.
C20_EmptyRendersAsNoResults ==
    \A i \in DOMAIN Rendered :
        (SearchRendering(Rendered[i]) /\ Rendered[i].count = 0) =>
            /\ Rendered[i].fmt = "no_results"
            /\ Rendered[i].about \in CollectionNames

\* a regex search of the HTTP dispatcher that matches no record is answered
\* with the results header "Found 0 ...:"
C20_EmptyRegexSearchRendersHeader ==
    /\ pc = "responded" /\ resp.via = "http"
    /\ Rendered # <<>>
    /\ req.body.method # "query"
    /\ Rendered[1].fmt = "found"
    /\ Rendered[1].count = 0
    /\ Rendered[1].items = <<>>

\* MpcHandler::call_tool has answered a query_database call that names no
\* single collection with the combined summary
CombinedSummary ==
    /\ pc = "responded" /\ resp.via = "tool"
    /\ req.call.name = "query_database"
    /\ resp.res.ok
    /\ resp.res.val.content[1].fmt = "summary"

\* the record sequences the four searches of the call fetched
Fetched ==
    search_all([chapters |-> pre, down |-> storeDown, order |-> AllCollections],
               parse_natural_language_query(get_str(req.call.arguments.val, "query").val)).res.val

SectionCollection(name) ==
    CASE name = "NOVELS" -> "novels"
      [] name = "CHARACTERS" -> "characters"
      [] name = "CHAPTERS" -> "chapters"
      [] OTHER -> "qa"

CappedSections(summary, fetched) ==
    /\ summary.count = Len(fetched.novels) + Len(fetched.characters)
                          + Len(fetched.chapters) + Len(fetched.qa)
    /\ \A i \in DOMAIN summary.items :
          /\ Len(summary.items[i].items) <= 3
          /\ summary.items[i].top = Len(summary.items[i].items)
          /\ \A j \in DOMAIN summary.items[i].items :
                summary.items[i].items[j] = fetched[SectionCollection(summary.items[i].name)][j]
          /\ Len(summary.items[i].items) = 3
                \/ Len(summary.items[i].items)
                       = Len(fetched[SectionCollection(summary.items[i].name)])

\* C21: the combined summary renders at most the first 3 records of each
\* section, however many were fetched, and the total it reports is the sum
\* of the full record counts of the four sections.
C21_SectionsCappedTotalFull ==
    CombinedSummary => CappedSections(resp.res.val.content[1], Fetched)

RenderedCount(summary) ==
    IF summary.items = <<>> THEN 0
    ELSE Len(summary.items[1].items)
             + (IF Len(summary.items) > 1 THEN Len(summary.items[2].items) ELSE 0)
             + (IF Len(summary.items) > 2 THEN Len(summary.items[3].items) ELSE 0)
             + (IF Len(summary.items) > 3 THEN Len(summary.items[4].items) ELSE 0)

\* a combined summary whose searches fetched more than 3 novels: 3 are
\* rendered and the total counts more records than are rendered
C21_MoreFetchedThanRendered ==
    /\ CombinedSummary
    /\ Len(Fetched.novels) > 3
    /\ resp.res.val.content[1].items[1].name = "NOVELS"
    /\ Len(resp.res.val.content[1].items[1].items) = 3
    /\ resp.res.val.content[1].count > RenderedCount(resp.res.val.content[1])

\* the HTTP dispatcher has answered query_qa_regex with a result
QaRegexAnswered ==
    /\ pc = "responded" /\ resp.via = "http"
    /\ req.body.kind = "json" /\ req.body.method = "query_qa_regex"
    /\ HasString("regex_pattern")
    /\ Rendered # <<>>

\* the text, lowercased, contains the pattern, lowercased and without its
\* anchors
ContainsIgnoringCase(text, pattern) ==
    contains(to_lowercase(text),
             SelectSeq(to_lowercase(pattern), LAMBDA c : c \notin {"^", "$"}))

RECURSIVE EntriesMatching(_, _)
EntriesMatching(entries, pattern) ==
    IF entries = <<>> THEN <<>>
    ELSE (IF \/ ContainsIgnoringCase(entries[1].question, pattern)
             \/ ContainsIgnoringCase(entries[1].answer, pattern)
          THEN <<entries[1]>> ELSE <<>>)
         \o EntriesMatching(Tail(entries), pattern)

\* C22: query_qa_regex returns the QA entries whose question or answer
\* matches the pattern case-insensitively, every one of them and no other,
\* rendered with the QA formatter.
C22_QaRegexReturnsMatchingEntries ==
    QaRegexAnswered =>
        /\ Len(Rendered) = 1
        /\ Rendered[1].fmt = "found"
        /\ Rendered[1].about = "Q&A entries"
        /\ Rendered[1].items = EntriesMatching(qa, req.body.options.regex_pattern.val.v)

\* a pattern in mixed case matches the entries whose question has the word
\* in lower case, and leaves out the entries that have it in neither field
C22_MixedCasePatternMatches ==
    /\ QaRegexAnswered
    /\ req.body.options.regex_pattern.val.v = Txt_r_magic
    /\ Rendered[1].items # <<>>
    /\ Len(Rendered[1].items) < Len(qa)
    /\ \A i \in DOMAIN Rendered[1].items : Rendered[1].items[i].question = Txt_magic

\* the dispatcher has ended a request
HttpEnded == pc = "responded" /\ resp.via = "http"

\* the three terminal outcomes of a request
EndsInSuccess ==
    /\ resp.reply.status = 200
    /\ resp.reply.envelope.some
    /\ resp.reply.envelope.val.result.some
    /\ ~resp.reply.envelope.val.error.some

EndsInProtocolError ==
    /\ resp.reply.status = 200
    /\ resp.reply.envelope.some
    /\ resp.reply.envelope.val.error.some
    /\ ~resp.reply.envelope.val.result.some
    /\ resp.reply.envelope.val.error.val.code \in Int

EndsInNoResponse ==
    /\ resp.reply.status = 204
    /\ ~resp.reply.envelope.some
    /\ req.body.kind = "json"
    /\ ~req.body.id.some

OutcomeCount(success, error, silent) ==
    (IF success THEN 1 ELSE 0) + (IF error THEN 1 ELSE 0) + (IF silent THEN 1 ELSE 0)

\* C23: a request given to the dispatcher ends in exactly one of three
\* outcomes: success (an envelope with a result), protocol error (an
\* envelope with an error code), or no response (a notification); it ends
\* in no other kind of reply and never in two outcomes.
C23_ExactlyOneOfThreeOutcomes ==
    HttpEnded => OutcomeCount(EndsInSuccess, EndsInProtocolError, EndsInNoResponse) = 1

\* a body over the size limit, or one that is not UTF-8, ends as a plain
\* 400 Bad Request: no envelope, no error code, and no notification
C23_UnreadableBodyEndsAsBadRequest ==
    /\ HttpEnded
    /\ req.body.kind \in {"too_large", "invalid_utf8"}
    /\ resp.reply.status = 400
    /\ ~resp.reply.envelope.some

\* position of the first failed sub-search among those the join waited for
\* (0 when none failed)
RECURSIVE FirstFailure(_, _, _)
FirstFailure(ops, down, i) ==
    IF i > Len(ops) THEN 0
    ELSE IF ops[i] \in down THEN i
    ELSE FirstFailure(ops, down, i + 1)

\* C24: the combined search fails fast: once one of the four sub-searches
\* has failed the operation returns that failure without waiting for the
\* remaining sub-searches, so the failed sub-search is the last one whose
\* completion the operation saw.
C24_FailsFastOnFirstError ==
    (DbSearchedAll /\ ~resp.res.ok) =>
        FirstFailure(storeOps, storeDown, 1) = Len(storeOps)

\* the novels search completed first and failed, and the combined search
\* returned its failure only after the other three had completed as well
C24_WaitsForAllAfterFailure ==
    /\ DbSearchedAll /\ ~resp.res.ok
    /\ storeDown = {"novels"}
    /\ FirstFailure(storeOps, storeDown, 1) = 1
    /\ Len(storeOps) = 4
    /\ Range(SubSeq(storeOps, 2, 4)) = {"chapters", "characters", "qa"}

\* a search of chapters, characters or qa whose specification carries a
\* work-id filter has returned records
SearchedWithWorkId ==
    /\ DbReturnedOk /\ req.call.op = "search"
    /\ req.call.coll \in {"chapters", "characters", "qa"}
    /\ req.call.params.filters.some
    /\ req.call.params.filters.val.novel_id.some

AllOfWork(coll, records, work) ==
    \A i \in DOMAIN records : DocNovelId(coll, records[i]) = Some(work)

\* C25: when the search specification carries a work-id filter, every
\* record a chapters, characters or qa search returns belongs to that work,
\* whatever string the work id is: the filter is never dropped.
C25_WorkIdFilterApplied ==
    SearchedWithWorkId =>
        AllOfWork(req.call.coll, resp.res.val.data, req.call.params.filters.val.novel_id.val)

\* the work id "bad" is no ObjectId: the search returns records although
\* no record belongs to a work of that id
C25_UnparsableWorkIdDropped ==
    /\ SearchedWithWorkId
    /\ req.call.coll = "chapters"
    /\ req.call.params.filters.val.novel_id.val = Txt_bad
    /\ resp.res.val.data # <<>>
    /\ \A i \in DOMAIN chapters : chapters[i].novel_id # Txt_bad

\* C26: for every input text the limit of the specification parse returns
\* is absent or a positive integer; parse never produces the limit 0.
C26_LimitAbsentOrPositive ==
    Parsed => (~resp.res.limit.some \/ resp.res.limit.val >= 1)

\* the directive "limit:0" is parsed to the limit Some(0)
C26_LimitZeroParsed ==
    /\ Parsed /\ req.text = Txt_p_zero
    /\ resp.res.limit = Some(0)

\* a search of chapters or of characters has returned a page
SortedSearchReturned ==
    /\ DbReturnedOk /\ req.call.op = "search"
    /\ req.call.coll \in {"chapters", "characters"}

SortKeyOf(coll) == IF coll = "chapters" THEN "number" ELSE "name"

DefaultLimitOf(coll) == IF coll = "chapters" THEN DefaultLimitChapters ELSE DefaultLimitCharacters

\* the records of the collection that match the search, in store order
Matching ==
    SelectSeqBy(req.call.coll, CollectionDocs(Store(storeDown), req.call.coll),
                search_filter(req.call.coll, req.call.params))

\* data is ascending in the key and holds the first L of the matching
\* records in that order: a matching record that is left out is not before
\* any record returned
FirstOfOrder(key, data, matching, L) ==
    /\ Len(data) = (IF Len(matching) < L THEN Len(matching) ELSE L)
    /\ \A i \in DOMAIN data : \E k \in DOMAIN matching : matching[k].id = data[i].id
    /\ \A i \in DOMAIN data : \A j \in DOMAIN data :
          i < j => SortLess(key, data[i], data[j])
    /\ \A k \in DOMAIN matching :
          (\A i \in DOMAIN data : data[i].id # matching[k].id) =>
              \A i \in DOMAIN data : SortLess(key, data[i], matching[k])

\* C27: the records of a chapters search are in ascending chapter number
\* and those of a characters search in ascending name, and when more than
\* L records match, the L records returned are the first L of that order.
C27_SortedAndFirstOfOrder ==
    SortedSearchReturned =>
        FirstOfOrder(SortKeyOf(req.call.coll), resp.res.val.data, Matching,
                     unwrap_or(req.call.params.limit, DefaultLimitOf(req.call.coll)))

\* four chapters match, stored in descending number; the page of limit 2
\* holds the chapters numbered 1 and 2 and reports more
C27_PageOfStoredOutOfOrder ==
    /\ SortedSearchReturned /\ req.call.coll = "chapters"
    /\ req.call.params.limit = Some(2)
    /\ Len(Matching) = 4 /\ Matching[1].number = 4
    /\ Len(resp.res.val.data) = 2
    /\ resp.res.val.data[1].number = 1 /\ resp.res.val.data[2].number = 2
    /\ resp.res.val.metadata.has_more

NewSummaries == {Txt_new, Txt_zzz}

\* the index in the collection of the chapter with this id, 0 when none
ChapterIndex(id) ==
    IF \E i \in DOMAIN InitChapters : InitChapters[i].id = Some(id)
    THEN CHOOSE i \in DOMAIN InitChapters : InitChapters[i].id = Some(id)
    ELSE 0

\* an update that is done reports success when the chapter existed at its
\* store update, and not-found only when it did not
UpdatesReportExistence(ts) ==
    \A t \in DOMAIN ts :
        (ts[t].kind = "update" /\ ts[t].at = "done") =>
            /\ ts[t].res.val.ok = ts[t].existed
            /\ ChapterIndex(ts[t].chapter_id) # 0 => ts[t].res.val.ok

\* when the updates of a chapter are all done its summary is the new
\* summary of one of them (the old one when it has no update)
FinalSummaryIsOneOfNew(ts, coll) ==
    (\A t \in DOMAIN ts : ts[t].kind = "update" => ts[t].at = "done") =>
        \A i \in DOMAIN coll :
            IF \E t \in DOMAIN ts : ts[t].kind = "update" /\ Some(ts[t].chapter_id) = coll[i].id
            THEN \E t \in DOMAIN ts :
                    /\ ts[t].kind = "update" /\ Some(ts[t].chapter_id) = coll[i].id
                    /\ coll[i].summary = ts[t].summary
            ELSE coll[i] = InitChapters[i]

\* a record that was read is the stored chapter with the old summary or
\* one of the new summaries, all other fields as stored
ReadIsOldOrNew(record, stored) ==
    /\ record.summary \in {stored.summary} \cup NewSummaries
    /\ [record EXCEPT !.summary = stored.summary] = stored

ReadsSeeWholeChapters(ts) ==
    \A t \in DOMAIN ts :
        /\ \A k \in DOMAIN ts[t].seen : ReadIsOldOrNew(ts[t].seen[k], InitChapters[k])
        /\ (ts[t].kind = "search" /\ ts[t].at = "done") =>
              /\ ts[t].res.val.ok
              /\ Len(ts[t].res.val.val.data) = NumChapters
              /\ \A k \in DOMAIN ts[t].res.val.val.data :
                    \E i \in DOMAIN InitChapters :
                        ReadIsOldOrNew(ts[t].res.val.val.data[k], compact_chapter(InitChapters[i]))

\* C28: when update_chapter_summary calls for the same existing chapter run
\* concurrently with each other and with a search, every update reports
\* success, the final summary of the chapter is the new summary of one of
\* the updates, every read sees the old summary or one of the new ones
\* with all other fields intact, and an update reports not-found only if
\* the chapter did not exist when its store update ran.
C28_ConcurrentUpdatesAtomic ==
    /\ UpdatesReportExistence(tasks)
    /\ FinalSummaryIsOneOfNew(tasks, chapters)
    /\ ReadsSeeWholeChapters(tasks)

\* both updates of the chapter ran while the search was reading: the
\* search read the chapter after the first update and before the second,
\* and the second update's summary is the final one
C28_ReadBetweenTwoUpdates ==
    /\ tasks # <<>>
    /\ \A t \in DOMAIN tasks : tasks[t].at = "done"
    /\ tasks[1].res.val.ok /\ tasks[2].res.val.ok
    /\ ~tasks[3].res.val.ok /\ ~tasks[3].existed
    /\ chapters[1].summary = Txt_zzz
    /\ tasks[4].seen[1].summary = Txt_new

\* C29: every response envelope produced for a request that parsed carries
\* the id of that request unchanged, in success, error and wrong-version
\* responses alike; the response to a body that did not parse carries a
\* null id.
C29_EnvelopeCarriesRequestId ==
    (HttpResponded /\ resp.reply.envelope.some) =>
        resp.reply.envelope.val.id = (IF from_str(req.body).ok THEN req.body.id ELSE None)

\* a request of version 1.0 with the id 1 is answered with the
\* invalid-request error envelope that carries the id 1
C29_WrongVersionKeepsId ==
    /\ HttpParsed
    /\ req.body.jsonrpc = "1.0" /\ req.body.id = Some(JNum(1))
    /\ ErrorCodeIs(InvalidRequestCode)
    /\ resp.reply.envelope.val.id = Some(JNum(1))

\* one of the four searches has returned a result
SearchReturned == DbReturnedOk /\ req.call.op = "search"

\* C30: in every search result the continuation token is present if and
\* only if has_more is true.
C30_TokenIffHasMore ==
    SearchReturned =>
        (resp.res.val.metadata.next_page_token.some <=> resp.res.val.metadata.has_more)

\* more records match than the limit allows: the page is full, has_more is
\* true and the token is present
C30_FullPageHasToken ==
    /\ SearchReturned
    /\ req.call.params.limit = Some(1)
    /\ Len(resp.res.val.data) = 1
    /\ resp.res.val.metadata.has_more
    /\ resp.res.val.metadata.next_page_token.some

====
